---- MODULE Spec2Model ----
(***************************************************************************)
(* Model of the question-flow and content-selection engine of              *)
(* llm-compiler-cli: the dependency resolver over the question list, the   *)
(* answer validator, the concept rule engine, the content loader and the   *)
(* template engine, the question wizard that drives them, the question     *)
(* loader, the file generator, the content manager and the CLI app with    *)
(* its generation hook.                                                    *)
(***************************************************************************)
EXTENDS Integers, Sequences, FiniteSets, TLC

VARIABLES
    qs,          \* the question list the resolver scans (questions / allQuestions)
    answers,     \* Record<string, any>: the answer set, keys present = DOMAIN
    op,          \* which operation produced `result` ("idle" before any call)
    arg,         \* the currentQuestionId the last call was made with
    result,      \* the value the last call returned
    currentQuestionIndex,  \* QuestionWizard state (0-based, as in the source)
    isComplete,            \* QuestionWizard state
    answerCount,   \* answers given before the first completeWizard call and
                   \* the first move back
    completeCalled,  \* completeWizard has been called
    wentBack,      \* handleBack has moved the wizard
    questions,     \* asynchronous wizard: the questions state
    isLoading,     \* asynchronous wizard: the isLoading state
    rendered,      \* asynchronous wizard: the state as of the last render, which
                   \* is what the handlers in use have closed over
    pending,       \* asynchronous wizard: the handleAnswer calls suspended at
                   \* await getNextQuestion
    config,      \* the configuration object handed to getApplicableConcepts
    rules,       \* conceptRules: the rule set getApplicableConcepts walks
    files,       \* the content directory: contentPath -> text of the file
    contentCache,  \* ContentLoader.contentCache of the engine in use
    today,       \* the calendar date new Date() falls on
    runs,        \* the GeneratedOutput of every generateInstructions call
    categoryFiles,    \* the category files of the questions directory, in the
                      \* order of their names
    loadedQuestions,  \* QuestionLoader.loadedQuestions (<<>>: null)
    outputDir,   \* the output directory: path -> text of the file
    options,     \* FileGenerator.options
    now,         \* Date.now()
    generated,   \* what every FileGenerator call returned or threw
    walkId,      \* the currentQuestionId of the recursive call that is running
    depth,       \* the recursive calls the running lookup has made
    props,       \* CLIApp props: the mode, and whether flags.config is given
    appState,    \* CLIApp state
    appConfig,   \* CLIApp state config: "empty" ({}) or "final" (a ProjectConfig)
    generation,  \* the state of the useGeneration hook
    calls,       \* the generateInstructions calls made: where each one is
    unmounted,   \* a render has thrown and the app is gone
    index,         \* ContentManager.index ("null", or the ids of its concepts)
    conceptFiles,  \* the ids of the concept files under contentPath/concepts
    initializing,  \* the initialize() calls suspended at await Promise.all(...):
                   \* how many were made by a caller and how many by refresh()
    initializeCompleted  \* an initialize() call has completed successfully

wizardVars == <<currentQuestionIndex, isComplete, answerCount, completeCalled, wentBack>>
ruleVars == <<config, rules>>
genVars == <<files, contentCache, today, runs>>
asyncVars == <<questions, isLoading, rendered, pending>>
loaderVars == <<categoryFiles, loadedQuestions>>
fileVars == <<outputDir, options, now, generated>>
walkVars == <<walkId, depth>>
appVars == <<props, appState, appConfig, generation, calls, unmounted>>
contentVars == <<index, conceptFiles, initializing, initializeCompleted>>

vars == <<qs, answers, op, arg, result, wizardVars, ruleVars, genVars, asyncVars,
          loaderVars, fileVars, walkVars, appVars, contentVars>>

----------------------------------------------------------------------------
(* Bounds of the model.                                                    *)

\* number of questions in a question list
NQ == 3
\* number of rules in a rule set
NRules == 3
\* largest number of keys present in an answer set drawn as an input
MaxAnswered == 2

----------------------------------------------------------------------------
(* JavaScript values.  Every value is a record of one shape, so that any   *)
(* two values can be compared: t is the runtime type, b the boolean, s the *)
(* string (a sequence of characters), a the array (a sequence of strings). *)

Undefined == [t |-> "undefined", b |-> FALSE, s |-> <<>>, a |-> <<>>]
JNull     == [t |-> "null",      b |-> FALSE, s |-> <<>>, a |-> <<>>]
JNum0     == [t |-> "number",    b |-> FALSE, s |-> <<>>, a |-> <<>>]
JBool(x)  == [t |-> "boolean",   b |-> x,     s |-> <<>>, a |-> <<>>]
JStr(x)   == [t |-> "string",    b |-> FALSE, s |-> x,    a |-> <<>>]
JArr(x)   == [t |-> "array",     b |-> FALSE, s |-> <<>>, a |-> x]

\* the strings the inputs are built from
StrEmpty == <<>>
StrBlank == <<" ">>
StrA     == <<"a">>
StrPadA  == <<" ", "a">>
StrZ     == <<"z">>

Whitespace == {" "}

RECURSIVE TrimStart(_)
TrimStart(s) ==
    IF s # <<>> /\ Head(s) \in Whitespace THEN TrimStart(Tail(s)) ELSE s

RECURSIVE TrimEnd(_)
TrimEnd(s) ==
    IF s # <<>> /\ s[Len(s)] \in Whitespace
    THEN TrimEnd(SubSeq(s, 1, Len(s) - 1))
    ELSE s

\* String.prototype.trim
Trim(s) == TrimEnd(TrimStart(s))

\* answers[key]: undefined for a key that is not present
Get(rec, key) == IF key \in DOMAIN rec THEN rec[key] ELSE Undefined

\* { [key]: value }: the copy of the earlier entries left out
Put_Only(rec, key, value) == [k \in {key} |-> value]

\* { ...rec, [key]: value }
Put(rec, key, value) ==
    [k \in (DOMAIN rec) \cup {key} |-> IF k = key THEN value ELSE rec[k]]

----------------------------------------------------------------------------
(* Questions.  A question list is a sequence of records; a question is     *)
(* identified by its position, and 0 stands for null / "no question".      *)

\* the currentQuestionId null
NullId == "<null>"

QId(i) == <<"q1", "q2", "q3", "q4", "q5">>[i]

\* Array.prototype.findIndex(q => q.id === id), 1-based; 0 for -1
FindIndex(list, id) ==
    IF \E i \in 1..Len(list) : list[i].id = id
    THEN CHOOSE i \in 1..Len(list) :
            /\ list[i].id = id
            /\ \A j \in 1..(i - 1) : list[j].id # id
    ELSE 0

\* !currentQuestionId
Falsy(id) == id = NullId \/ id = ""

----------------------------------------------------------------------------
(* core/question-engine/questions.ts                                       *)

\* the inline dependency test of getNextQuestion
dependenciesMet(deps, ans) ==
    \A dep \in deps :
        \/ Get(ans, dep) = JBool(TRUE)
        \/ (Get(ans, dep).t = "array" /\ Len(Get(ans, dep).a) > 0)

\* mutant: an id that is not found is treated like null
getNextQuestion_UnknownAsNull(list, currentQuestionId, ans) ==
    IF Falsy(currentQuestionId) \/ FindIndex(list, currentQuestionId) = 0 THEN 1
    ELSE IF FindIndex(list, currentQuestionId) = Len(list) THEN 0
    ELSE FindIndex(list, currentQuestionId) + 1

\* mutant: the question after the current one is never looked for
getNextQuestion_Stay(list, currentQuestionId, ans) ==
    IF Falsy(currentQuestionId) THEN 1 ELSE FindIndex(list, currentQuestionId)

RECURSIVE getNextQuestion(_, _, _)
getNextQuestion(list, currentQuestionId, ans) ==
    IF Falsy(currentQuestionId) THEN 1
    ELSE LET currentIndex == FindIndex(list, currentQuestionId) IN
         IF currentIndex = 0 \/ currentIndex = Len(list) THEN 0
         ELSE LET nextQuestion == list[currentIndex + 1] IN
              IF ~dependenciesMet(nextQuestion.dependencies, ans)
              THEN getNextQuestion(list, nextQuestion.id, ans)
              ELSE currentIndex + 1

----------------------------------------------------------------------------
(* resources/questions/loaders/CategoryManager.ts                          *)

checkDependencies(deps, ans) ==
    \A dep \in deps :
        LET answer == Get(ans, dep) IN
        IF answer.t = "boolean" THEN answer.b = TRUE
        ELSE IF answer.t = "array" THEN Len(answer.a) > 0
        ELSE IF answer.t = "string" THEN Len(Trim(answer.s)) > 0
        ELSE answer.t \notin {"null", "undefined"}

RECURSIVE CategoryManager_getNextQuestion(_, _, _)
CategoryManager_getNextQuestion(allQuestions, currentQuestionId, ans) ==
    IF Falsy(currentQuestionId)
    THEN (IF Len(allQuestions) > 0 THEN 1 ELSE 0)
    ELSE LET currentIndex == FindIndex(allQuestions, currentQuestionId) IN
         IF currentIndex = 0 \/ currentIndex = Len(allQuestions) THEN 0
         ELSE LET nextQuestion == allQuestions[currentIndex + 1] IN
              IF /\ nextQuestion.dependencies # {}
                 /\ ~checkDependencies(nextQuestion.dependencies, ans)
              THEN CategoryManager_getNextQuestion(allQuestions, nextQuestion.id, ans)
              ELSE currentIndex + 1

\* mutant: the question before is returned without the dependency check
CategoryManager_getPreviousQuestion_NoSkip(allQuestions, currentQuestionId, ans) ==
    IF FindIndex(allQuestions, currentQuestionId) <= 1 THEN 0
    ELSE FindIndex(allQuestions, currentQuestionId) - 1

RECURSIVE CategoryManager_getPreviousQuestion(_, _, _)
CategoryManager_getPreviousQuestion(allQuestions, currentQuestionId, ans) ==
    LET currentIndex == FindIndex(allQuestions, currentQuestionId) IN
    IF currentIndex <= 1 THEN 0
    ELSE LET previousQuestion == allQuestions[currentIndex - 1] IN
         IF /\ previousQuestion.dependencies # {}
            /\ ~checkDependencies(previousQuestion.dependencies, ans)
         THEN CategoryManager_getPreviousQuestion(allQuestions, previousQuestion.id, ans)
         ELSE currentIndex - 1

\* mutant: an empty-string answer of a required question is not reported
questionErrors_EmptyStringAnswered(question, ans) ==
    IF /\ question.dependencies # {}
       /\ ~checkDependencies(question.dependencies, ans)
    THEN <<>>
    ELSE IF question.required /\ Get(ans, question.id).t \in {"null", "undefined"}
         THEN << [msg |-> "required", text |-> question.text] >>
         ELSE <<>>

\* the error a question contributes to validateAnswers: none or one message
\* (the message text is reduced to its kind and the question text it quotes)
questionErrors(question, ans) ==
    IF /\ question.dependencies # {}
       /\ ~checkDependencies(question.dependencies, ans)
    THEN <<>>
    ELSE LET answer == Get(ans, question.id)
             absent == answer.t \in {"null", "undefined"}
         IN
         IF question.required /\ (absent \/ answer = JStr(<<>>))
         THEN << [msg |-> "required", text |-> question.text] >>
         ELSE IF absent THEN <<>>
         ELSE IF question.type = "single"
              THEN (IF /\ question.hasOptions
                       /\ ~(answer.t = "string" /\ answer.s \in question.options)
                    THEN << [msg |-> "invalid answer", text |-> question.text] >>
                    ELSE <<>>)
         ELSE IF question.type = "multiple"
              THEN (IF answer.t # "array"
                    THEN << [msg |-> "must be an array", text |-> question.text] >>
                    ELSE IF /\ question.hasOptions
                            /\ \E i \in 1..Len(answer.a) : answer.a[i] \notin question.options
                    THEN << [msg |-> "invalid options", text |-> question.text] >>
                    ELSE <<>>)
         ELSE IF question.type = "boolean"
              THEN (IF answer.t # "boolean"
                    THEN << [msg |-> "must be true or false", text |-> question.text] >>
                    ELSE <<>>)
         ELSE IF question.type = "text"
              THEN (IF answer.t # "string"
                    THEN << [msg |-> "must be text", text |-> question.text] >>
                    ELSE <<>>)
         ELSE <<>>

RECURSIVE collectErrors(_, _, _)
collectErrors(allQuestions, i, ans) ==
    IF i > Len(allQuestions) THEN <<>>
    ELSE questionErrors(allQuestions[i], ans) \o collectErrors(allQuestions, i + 1, ans)

validateAnswers(allQuestions, ans) ==
    LET errors == collectErrors(allQuestions, 1, ans) IN
    [isValid |-> Len(errors) = 0, errors |-> errors]

----------------------------------------------------------------------------
(* core/concept-mapper/concept-rules.ts                                    *)
(* A configuration is an object whose properties are values or objects of  *)
(* values: top holds the properties of the configuration itself, kids the  *)
(* properties of each property that is an object.                          *)

JObject == [t |-> "object", b |-> FALSE, s |-> <<>>, a |-> <<>>]

EmptyConfig == [top |-> <<>>, kids |-> <<>>]

\* String.prototype.split('.'): a field is a sequence of name tokens and
\* dots, a segment is the name between two dots ("" when there is none)
RECURSIVE SplitDots(_, _)
SplitDots(field, segment) ==
    IF field = <<>> THEN <<segment>>
    ELSE IF Head(field) = "." THEN <<segment>> \o SplitDots(Tail(field), "")
    ELSE SplitDots(Tail(field), Head(field))

\* a value in a boolean context
Truthy(v) ==
    /\ v.t \notin {"undefined", "null"}
    /\ v # JBool(FALSE)
    /\ v # JStr(<<>>)
    /\ v # JNum0

\* current[key] for the value `current` found at `at` (the segments walked)
Property(cfg, current, at, key) ==
    IF current.t # "object" THEN Undefined
    ELSE IF at = <<>> THEN Get(cfg.top, key)
    ELSE IF Len(at) = 1 /\ at[1] \in DOMAIN cfg.kids THEN Get(cfg.kids[at[1]], key)
    ELSE Undefined

\* the reduce of getNestedValue over the segments
RECURSIVE ReducePath(_, _, _, _)
ReducePath(cfg, current, at, segments) ==
    IF segments = <<>> THEN current
    ELSE LET key == Head(segments)
             found == Property(cfg, current, at, key)
             next == IF Truthy(current) /\ found # Undefined THEN found ELSE Undefined
         IN ReducePath(cfg, next, Append(at, key), Tail(segments))

getNestedValue(obj, path) ==
    ReducePath(obj, JObject, <<>>, SplitDots(path, ""))

\* a === b: by value for primitives, by reference for arrays and objects; a
\* rule's literal is never the array or object held by the configuration
StrictEquals(x, y) ==
    /\ x.t \notin {"array", "object"}
    /\ x = y

\* Array.prototype.includes
Includes(arr, v) ==
    /\ v.t = "string"
    /\ \E i \in 1..Len(arr) : arr[i] = v.s

conditionMatches(cfg, condition) ==
    LET fieldValue == getNestedValue(cfg, condition.field) IN
    CASE condition.operator = "equals" ->
            StrictEquals(fieldValue, condition.value)
      [] condition.operator = "includes" ->
            fieldValue.t = "array" /\ Includes(fieldValue.a, condition.value)
      [] condition.operator = "exists" ->
            fieldValue # Undefined /\ fieldValue # JNull /\ fieldValue # JStr(<<>>)
      [] OTHER -> FALSE

\* mutant: every condition has to match
isApplicable_Every(cfg, rule) ==
    \A i \in 1..Len(rule.conditions) : conditionMatches(cfg, rule.conditions[i])

isApplicable(cfg, rule) ==
    \/ Len(rule.conditions) = 0
    \/ \E i \in 1..Len(rule.conditions) : conditionMatches(cfg, rule.conditions[i])

\* the for loop: the applicable rules, in declaration order
RECURSIVE applicableConcepts(_, _, _)
applicableConcepts(cfg, ruleSet, i) ==
    IF i > Len(ruleSet) THEN <<>>
    ELSE (IF isApplicable(cfg, ruleSet[i])
          THEN << [id |-> ruleSet[i].conceptId, priority |-> ruleSet[i].priority] >>
          ELSE <<>>)
         \o applicableConcepts(cfg, ruleSet, i + 1)

\* mutant: (a, b) => a.priority - b.priority
byPriorityDescending_Ascending(a, b) == a.priority - b.priority

\* (a, b) => b.priority - a.priority
byPriorityDescending(a, b) == b.priority - a.priority

\* Array.prototype.sort with the comparator above: a stable sort (ECMAScript
\* 2019; the package requires node >= 18).  insertByPriority puts x behind
\* every element that does not compare after it.
RECURSIVE insertByPriority(_, _)
insertByPriority(sorted, x) ==
    IF sorted = <<>> THEN <<x>>
    ELSE IF byPriorityDescending(Head(sorted), x) <= 0
         THEN <<Head(sorted)>> \o insertByPriority(Tail(sorted), x)
         ELSE <<x>> \o sorted

RECURSIVE sortByPriority(_)
sortByPriority(seq) ==
    IF seq = <<>> THEN <<>>
    ELSE insertByPriority(sortByPriority(SubSeq(seq, 1, Len(seq) - 1)), seq[Len(seq)])

getApplicableConcepts(cfg, ruleSet) ==
    LET sorted == sortByPriority(applicableConcepts(cfg, ruleSet, 1))
    IN [i \in 1..Len(sorted) |-> sorted[i].id]

----------------------------------------------------------------------------
(* Inputs: the question lists and answer sets the operations are applied   *)
(* to.                                                                     *)

QIds == {QId(i) : i \in 1..NQ}

\* the prerequisite sets a question at position i is given: none, one
\* (the question before it; for the first question the last one, a forward
\* reference), two (the first and the last question of the list)
DepShapes(i) ==
    { {}, {QId(IF i > 1 THEN i - 1 ELSE NQ)}, {QId(1), QId(NQ)} }

Types == <<"single", "multiple", "boolean", "text">>
TypeOf(i, r) == Types[((i + r) % 4) + 1]
TypeRotations == {0, 2}

Options == {StrA}

Question(i, deps, type, required) ==
    [id |-> QId(i), text |-> QId(i), type |-> type,
     hasOptions |-> type \in {"single", "multiple"}, options |-> Options,
     dependencies |-> deps, required |-> required]

\* lists of NQ questions with unique ids: every choice of prerequisite shape
QuestionLists ==
    { [i \in 1..NQ |-> Question(i, d[i], TypeOf(i, 0), TRUE)] :
        d \in [1..NQ -> SUBSET QIds] \cap
              { f \in [1..NQ -> SUBSET QIds] : \A i \in 1..NQ : f[i] \in DepShapes(i) } }

\* the values an answer takes in the inputs
ResolverVals ==
    { JNull, JNum0, JBool(TRUE), JBool(FALSE),
      JStr(StrEmpty), JStr(StrBlank), JStr(StrA), JStr(StrPadA),
      JArr(<<>>), JArr(<<StrA>>) }

\* answer sets with at most MaxAnswered keys, at most one of them non-boolean
AnswerSetsOver(V) ==
    UNION { { f \in [S -> V] : Cardinality({k \in S : f[k].t # "boolean"}) <= 1 } :
            S \in { T \in SUBSET QIds : Cardinality(T) <= MaxAnswered } }

\* the currentQuestionId values a call is made with: every id of the list,
\* null, the empty string and an id that is in no list
UnknownId == "zz"
CallIds == QIds \cup {NullId, "", UnknownId}

----------------------------------------------------------------------------
(* The resolver as a state machine: the inputs are drawn at Init and each  *)
(* action is one call on them, recorded in op, arg and result (a call      *)
(* reads the inputs only, so one call per behaviour covers every call).    *)

WizardIdle ==
    /\ currentQuestionIndex = 0
    /\ isComplete = FALSE
    /\ answerCount = 0
    /\ completeCalled = FALSE
    /\ wentBack = FALSE
AsyncIdle == questions = <<>> /\ isLoading = FALSE /\ rendered = <<>> /\ pending = {}
LoaderIdle == categoryFiles = <<>> /\ loadedQuestions = <<>>
FilesIdle == outputDir = <<>> /\ options = <<>> /\ now = 0 /\ generated = <<>>
WalkIdle == walkId = "<null>" /\ depth = 0
AppIdle ==
    /\ props = <<>>
    /\ appState = "none"
    /\ appConfig = "empty"
    /\ generation = <<>>
    /\ calls = <<>>
    /\ unmounted = FALSE
ContentIdle ==
    /\ index = [null |-> TRUE, concepts |-> {}]
    /\ conceptFiles = {}
    /\ initializing = [initialize |-> 0, refresh |-> 0]
    /\ initializeCompleted = FALSE
GeneratorIdle == files = <<>> /\ contentCache = <<>> /\ today = 0 /\ runs = <<>>
RulesIdle == config = EmptyConfig /\ rules = <<>>

InitResolver ==
    /\ qs \in QuestionLists
    /\ answers \in AnswerSetsOver(ResolverVals)
    /\ op = "idle"
    /\ arg = NullId
    /\ result = 0
    /\ WizardIdle
    /\ AsyncIdle
    /\ LoaderIdle
    /\ FilesIdle
    /\ WalkIdle
    /\ AppIdle
    /\ ContentIdle
    /\ GeneratorIdle
    /\ RulesIdle

CallGetNextQuestion ==
    \E id \in CallIds :
        /\ op = "idle"
        /\ op' = "getNextQuestion"
        /\ arg' = id
        /\ result' = getNextQuestion(qs, id, answers)
        /\ UNCHANGED <<qs, answers, wizardVars, ruleVars, asyncVars, genVars,
                   loaderVars, fileVars,
                   walkVars, appVars, contentVars>>

CallCategoryManagerGetNextQuestion ==
    \E id \in CallIds :
        /\ op = "idle"
        /\ op' = "CategoryManager.getNextQuestion"
        /\ arg' = id
        /\ result' = CategoryManager_getNextQuestion(qs, id, answers)
        /\ UNCHANGED <<qs, answers, wizardVars, ruleVars, asyncVars, genVars,
                   loaderVars, fileVars,
                   walkVars, appVars, contentVars>>

CallCategoryManagerGetPreviousQuestion ==
    \E id \in CallIds \ {NullId} :
        /\ op = "idle"
        /\ op' = "CategoryManager.getPreviousQuestion"
        /\ arg' = id
        /\ result' = CategoryManager_getPreviousQuestion(qs, id, answers)
        /\ UNCHANGED <<qs, answers, wizardVars, ruleVars, asyncVars, genVars,
                   loaderVars, fileVars,
                   walkVars, appVars, contentVars>>

NextResolver ==
    \/ CallGetNextQuestion
    \/ CallCategoryManagerGetNextQuestion
    \/ CallCategoryManagerGetPreviousQuestion

SpecResolver == InitResolver /\ [][NextResolver]_vars

----------------------------------------------------------------------------
(* The validator as a state machine.                                       *)

RequiredMasks == {"all", "none", "odd"}
RequiredAt(i, mask) == mask = "all" \/ (mask = "odd" /\ i % 2 = 1)

\* question lists whose types and required flags vary as well
ValidatorLists ==
    { [i \in 1..NQ |-> Question(i, l[i].dependencies, TypeOf(i, r), RequiredAt(i, m))] :
        l \in QuestionLists, r \in TypeRotations, m \in RequiredMasks }

ValidatorVals ==
    ResolverVals \cup { JStr(StrZ), JArr(<<StrZ>>), JArr(<<StrA, StrZ>>) }

InitValidator ==
    /\ qs \in ValidatorLists
    /\ answers \in AnswerSetsOver(ValidatorVals)
    /\ op = "idle"
    /\ arg = NullId
    /\ result = 0
    /\ WizardIdle
    /\ AsyncIdle
    /\ LoaderIdle
    /\ FilesIdle
    /\ WalkIdle
    /\ AppIdle
    /\ ContentIdle
    /\ GeneratorIdle
    /\ RulesIdle

CallValidateAnswers ==
    /\ op = "idle"
    /\ op' = "validateAnswers"
    /\ result' = validateAnswers(qs, answers)
    /\ UNCHANGED <<qs, answers, arg, wizardVars, ruleVars, asyncVars, genVars,
                   loaderVars, fileVars,
                   walkVars, appVars, contentVars>>

NextValidator == CallValidateAnswers

SpecValidator == InitValidator /\ [][NextValidator]_vars

----------------------------------------------------------------------------
(* The rule engine as a state machine.                                     *)

\* the configurations: followTDD is a boolean; linting is absent, an array
\* or a string; uiFramework is absent, null, '' or a name; philosophy is
\* absent, an object with or without tdd, or a boolean
ConfigChoices ==
    [ followTDD : {JBool(TRUE), JBool(FALSE)},
      linting : {Undefined, JArr(<<StrA>>), JStr(StrA)},
      uiFramework : {Undefined, JNull, JStr(StrEmpty), JStr(StrA)},
      philosophy : {"absent", "tdd", "empty", "boolean"} ]

ConfigOf(c) ==
    LET given == { k \in {"followTDD", "linting", "uiFramework"} : c[k] # Undefined }
        keys == given \cup (IF c.philosophy = "absent" THEN {} ELSE {"philosophy"})
    IN [ top |-> [k \in keys |->
                    IF k # "philosophy" THEN c[k]
                    ELSE IF c.philosophy = "boolean" THEN JBool(TRUE) ELSE JObject],
         kids |-> IF c.philosophy \in {"tdd", "empty"}
                  THEN [k \in {"philosophy"} |->
                          IF c.philosophy = "tdd"
                          THEN [j \in {"tdd"} |-> JBool(TRUE)]
                          ELSE <<>>]
                  ELSE <<>> ]

Configs == { ConfigOf(c) : c \in ConfigChoices }

Condition(f, o, v) == [field |-> f, operator |-> o, value |-> v]

eqFlat   == Condition(<<"followTDD">>, "equals", JBool(TRUE))
eqNested == Condition(<<"philosophy", ".", "tdd">>, "equals", JBool(TRUE))
eqArray  == Condition(<<"linting">>, "equals", JArr(<<StrA>>))
incl     == Condition(<<"linting">>, "includes", JStr(StrA))
exist    == Condition(<<"uiFramework">>, "exists", JNull)

ConditionLists == { <<>>, <<eqFlat>>, <<eqNested>>, <<exist>>, <<eqArray, incl>> }
Priorities == {1, 2}

ConceptId(i) == <<"c1", "c2", "c3", "c4", "c5">>[i]

\* rule sets of NRules rules with unique concept ids
RuleSets ==
    { [i \in 1..NRules |->
          [conceptId |-> ConceptId(i), conditions |-> c[i], priority |-> p[i]]] :
        c \in [1..NRules -> ConditionLists], p \in [1..NRules -> Priorities] }

\* the first rules of conceptRules (concept-rules.ts)
StrEslint == <<"eslint">>
StrTypescript == <<"typescript">>
StrJavascript == <<"javascript">>
StrPython == <<"python">>

conceptRules ==
    << [conceptId |-> "tdd", priority |-> 10,
        conditions |-> <<Condition(<<"followTDD">>, "equals", JBool(TRUE))>>],
       [conceptId |-> "testing-principles", priority |-> 9,
        conditions |-> <<Condition(<<"followTDD">>, "equals", JBool(TRUE))>>],
       [conceptId |-> "code-style", priority |-> 8,
        conditions |-> <<Condition(<<"linting">>, "includes", JStr(StrEslint))>>],
       [conceptId |-> "code-review", priority |-> 7,
        conditions |-> <<Condition(<<"codeReview">>, "equals", JBool(TRUE))>>],
       [conceptId |-> "exception-handling", priority |-> 6,
        conditions |-> <<Condition(<<"projectType">>, "equals", JStr(StrTypescript)),
                         Condition(<<"projectType">>, "equals", JStr(StrJavascript))>>] >>

\* a ?? b
Coalesce(a, b) == IF a.t \in {"undefined", "null"} THEN b ELSE a

\* transformAnswersToConfig of the wizard, for the choices the rules above
\* are about: the project type, TDD, the linters and code review
transformAnswersToConfig(rawAnswers) ==
    LET linting == Get(rawAnswers, "linting") IN
    [ top |-> [k \in {"projectType", "philosophy", "tools", "quality"} |->
                 IF k = "projectType"
                 THEN (IF Truthy(Get(rawAnswers, "projectType"))
                       THEN Get(rawAnswers, "projectType") ELSE JStr(StrTypescript))
                 ELSE JObject],
      kids |-> [k \in {"philosophy", "tools", "quality"} |->
                 CASE k = "philosophy" ->
                        [j \in {"tdd"} |-> Coalesce(Get(rawAnswers, "followTDD"), JBool(TRUE))]
                   [] k = "tools" ->
                        [j \in {"eslint"} |->
                            IF linting.t \in {"undefined", "null"} THEN JBool(TRUE)
                            ELSE JBool(Includes(linting.a, JStr(StrEslint)))]
                   [] OTHER ->
                        [j \in {"codeReview"} |->
                            Coalesce(Get(rawAnswers, "codeReview"), JBool(TRUE))]] ]

\* the answers a wizard run ends with: a question is answered or was skipped
WizardAnswerChoices ==
    [ projectType : {Undefined, JStr(StrPython)},
      followTDD : {Undefined, JBool(TRUE), JBool(FALSE)},
      linting : {Undefined, JArr(<<>>), JArr(<<StrEslint>>)},
      codeReview : {Undefined, JBool(FALSE)} ]

WizardAnswerSets ==
    { [k \in { x \in DOMAIN c : c[x] # Undefined } |-> c[k]] : c \in WizardAnswerChoices }

\* the ProjectConfig handed to onComplete
WizardConfigs == { transformAnswersToConfig(a) : a \in WizardAnswerSets }

ResolverIdle == qs = <<>> /\ answers = <<>>

InitRules ==
    /\ config \in Configs \cup WizardConfigs
    /\ rules \in RuleSets \cup {conceptRules}
    /\ op = "idle"
    /\ arg = NullId
    /\ result = 0
    /\ ResolverIdle
    /\ WizardIdle
    /\ AsyncIdle
    /\ LoaderIdle
    /\ FilesIdle
    /\ WalkIdle
    /\ AppIdle
    /\ ContentIdle
    /\ GeneratorIdle

CallGetApplicableConcepts ==
    /\ op = "idle"
    /\ op' = "getApplicableConcepts"
    /\ result' = getApplicableConcepts(config, rules)
    /\ UNCHANGED <<qs, answers, arg, wizardVars, ruleVars, asyncVars, genVars,
                   loaderVars, fileVars,
                   walkVars, appVars, contentVars>>

NextRules == CallGetApplicableConcepts

SpecRules == InitRules /\ [][NextRules]_vars

----------------------------------------------------------------------------
(* cli/components/QuestionWizard.tsx                                       *)

\* the values the input component of a question hands to onAnswer
AnswerInputs(question) ==
    CASE question.type = "single"   -> { JStr(o) : o \in question.options }
      [] question.type = "multiple" -> { JArr(<<>>), JArr(<<StrA>>) }
      [] question.type = "boolean"  -> { JBool(TRUE), JBool(FALSE) }
      [] OTHER                      -> { JStr(StrEmpty), JStr(StrA) }

\* question lists as the specification requires them of the loader: every
\* prerequisite names a question earlier in the list
BackwardOnly(list) ==
    \A i \in 1..Len(list) : list[i].dependencies \subseteq { list[j].id : j \in 1..(i - 1) }

WizardLists ==
    { [i \in 1..NQ |-> Question(i, l[i].dependencies, TypeOf(i, r), TRUE)] :
        l \in { x \in QuestionLists : BackwardOnly(x) }, r \in TypeRotations }

InitWizard ==
    /\ qs \in WizardLists
    /\ answers = <<>>
    /\ WizardIdle
    /\ AsyncIdle
    /\ LoaderIdle
    /\ FilesIdle
    /\ WalkIdle
    /\ AppIdle
    /\ ContentIdle
    /\ op = "idle"
    /\ arg = NullId
    /\ result = 0
    /\ RulesIdle
    /\ GeneratorIdle

\* completeWizard: isComplete is set when ProjectConfigSchema.parse accepts
\* the transformed answers and left alone when it throws (the options of
\* uiFramework, stateManagement and testingFramework go beyond the schema)
completeWizard(accepted) ==
    /\ isComplete' = (isComplete \/ accepted)
    /\ completeCalled' = TRUE

handleAnswer ==
    /\ ~isComplete
    /\ \E answer \in AnswerInputs(qs[currentQuestionIndex + 1]), accepted \in BOOLEAN :
        LET currentQuestion == qs[currentQuestionIndex + 1]
            newAnswers == Put(answers, currentQuestion.id, answer)
            nextQuestion == getNextQuestion(qs, currentQuestion.id, newAnswers)
        IN /\ answers' = newAnswers
           /\ IF nextQuestion # 0
              THEN /\ currentQuestionIndex' = FindIndex(qs, qs[nextQuestion].id) - 1
                   /\ UNCHANGED <<isComplete, completeCalled>>
              ELSE /\ completeWizard(accepted)
                   /\ UNCHANGED currentQuestionIndex
           /\ answerCount' = IF completeCalled \/ wentBack THEN answerCount
                             ELSE answerCount + 1
           /\ op' = "handleAnswer"
           /\ UNCHANGED <<qs, arg, result, wentBack, ruleVars, asyncVars, genVars,
                   loaderVars, fileVars,
                   walkVars, appVars, contentVars>>

\* the escape key
handleBack ==
    /\ currentQuestionIndex > 0
    /\ currentQuestionIndex' = currentQuestionIndex - 1
    /\ wentBack' = TRUE
    /\ op' = "handleBack"
    /\ UNCHANGED <<qs, answers, arg, result, isComplete, answerCount, completeCalled,
                   ruleVars, asyncVars, genVars,
                   loaderVars, fileVars,
                   walkVars, appVars, contentVars>>

NextWizard == handleAnswer \/ handleBack

SpecWizard == InitWizard /\ [][NextWizard]_vars

\* the user answers every question displayed and never goes back
SpecWizardForward == InitWizard /\ [][handleAnswer]_vars /\ WF_vars(handleAnswer)

----------------------------------------------------------------------------
(* cli/components/QuestionWizard.tsx, the wizard over the loaded questions *)
(* (resources/questions): handleAnswer is asynchronous, and every handler  *)
(* works on the state of the render it was created in.                     *)

\* most handleAnswer calls suspended at one time
MaxPending == 2

\* { ...a, ...b }
Merge(a, b) ==
    [k \in (DOMAIN a) \cup (DOMAIN b) |-> IF k \in DOMAIN b THEN b[k] ELSE a[k]]

\* a question of the loaded set, with its default (Undefined: none)
WithDefault(question, default) ==
    [id |-> question.id, text |-> question.text, type |-> question.type,
     hasOptions |-> question.hasOptions, options |-> question.options,
     dependencies |-> question.dependencies, required |-> question.required,
     default |-> default]

\* a default of the type of the question for every other question
DefaultAt(list, i) ==
    IF i % 2 = 0 THEN Undefined
    ELSE CASE list[i].type = "single"   -> JStr(StrA)
           [] list[i].type = "multiple" -> JArr(<<StrA>>)
           [] list[i].type = "boolean"  -> JBool(FALSE)
           [] OTHER                     -> JStr(StrA)

LoadedLists ==
    { [i \in 1..NQ |-> WithDefault(l[i], DefaultAt(l, i))] :
        l \in { x \in WizardLists : x[1].type = TypeOf(1, 0) } }

\* the initialConfig prop, and the answers the flags prop stands for
InitialConfigs == { <<>>, [k \in {QId(1)} |-> JBool(TRUE)] }
FlagAnswers == { <<>>, [k \in {QId(NQ)} |-> JBool(TRUE)] }

\* the state a render shows and its handlers close over, with the flags prop
\* (as the answers it stands for), which is the same in every render
Snapshot ==
    [answers |-> answers, currentQuestionIndex |-> currentQuestionIndex,
     questions |-> questions, isLoading |-> isLoading, isComplete |-> isComplete,
     flags |-> rendered.flags]

\* the mounted component: both effects have run, loadQuestions is suspended
\* at await getAllQuestions, the flags effect has called setAnswers
InitAsyncWizard ==
    /\ qs \in LoadedLists
    /\ \E initialConfig \in InitialConfigs, flagAnswers \in FlagAnswers :
        /\ answers = Merge(initialConfig, flagAnswers)
        /\ pending = { [kind |-> "load", next |-> 0, answers |-> initialConfig] }
        /\ rendered = [answers |-> initialConfig, currentQuestionIndex |-> 0,
                       questions |-> <<>>, isLoading |-> TRUE, isComplete |-> FALSE,
                       flags |-> flagAnswers]
    /\ questions = <<>>
    /\ isLoading = TRUE
    /\ WizardIdle
    /\ LoaderIdle
    /\ FilesIdle
    /\ WalkIdle
    /\ AppIdle
    /\ ContentIdle
    /\ op = "idle"
    /\ arg = NullId
    /\ result = 0
    /\ RulesIdle
    /\ GeneratorIdle

\* answersWithDefaults of the loadQuestions effect
RECURSIVE answersWithDefaults(_, _)
answersWithDefaults(allQuestions, initial) ==
    IF allQuestions = <<>> THEN initial
    ELSE LET question == Head(allQuestions)
             withThis ==
                IF question.default # Undefined /\ ~Truthy(Get(initial, question.id))
                THEN Put(initial, question.id, question.default)
                ELSE initial
         IN answersWithDefaults(Tail(allQuestions), withThis)

\* the rest of loadQuestions once getAllQuestions has settled
LoadQuestionsSettles ==
    \E l \in pending, loadedOk \in BOOLEAN :
        /\ l.kind = "load"
        /\ IF loadedOk
           THEN /\ questions' = qs
                /\ answers' = answersWithDefaults(qs, l.answers)
           ELSE UNCHANGED <<questions, answers>>
        /\ isLoading' = FALSE
        /\ pending' = pending \ {l}
        /\ op' = "loadQuestions"
        /\ UNCHANGED <<qs, arg, result, wizardVars, rendered, ruleVars, genVars,
                   loaderVars, fileVars,
                   walkVars, appVars, contentVars>>

\* React renders the component again
Render ==
    /\ rendered # Snapshot
    /\ rendered' = Snapshot
    /\ op' = "render"
    /\ UNCHANGED <<qs, answers, arg, result, wizardVars, questions, isLoading, pending,
                   ruleVars, genVars,
                   loaderVars, fileVars,
                   walkVars, appVars, contentVars>>

\* QuestionDisplay is on the screen of the last render
QuestionDisplayed ==
    /\ ~rendered.isLoading
    /\ Len(rendered.questions) > 0
    /\ ~rendered.isComplete
    /\ rendered.currentQuestionIndex + 1 \in 1..Len(rendered.questions)

\* handleAnswer up to await getNextQuestion: the lookup runs to its result
\* in the call, the rest of handleAnswer waits for the promise to settle
AsyncHandleAnswer ==
    /\ QuestionDisplayed
    /\ Cardinality(pending) < MaxPending
    /\ \E answer \in AnswerInputs(rendered.questions[rendered.currentQuestionIndex + 1]) :
        LET currentQuestion == rendered.questions[rendered.currentQuestionIndex + 1]
            newAnswers == Put(rendered.answers, currentQuestion.id, answer)
        IN /\ answers' = newAnswers
           /\ pending' = pending \cup
                 { [kind |-> "lookup", answers |-> <<>>,
                    next |-> CategoryManager_getNextQuestion(qs, currentQuestion.id, newAnswers)] }
    /\ op' = "handleAnswer"
    /\ UNCHANGED <<qs, arg, result, wizardVars, questions, isLoading, rendered,
                   ruleVars, genVars,
                   loaderVars, fileVars,
                   walkVars, appVars, contentVars>>

\* handleAnswer from await getNextQuestion on
GetNextQuestionSettles ==
    \E l \in pending, accepted \in BOOLEAN :
        /\ l.kind = "lookup"
        /\ LET nextQuestion == l.next IN
           IF nextQuestion # 0
           THEN /\ currentQuestionIndex' = FindIndex(questions, qs[nextQuestion].id) - 1
                /\ UNCHANGED <<isComplete, completeCalled>>
           ELSE /\ completeWizard(accepted)
                /\ UNCHANGED currentQuestionIndex
        /\ pending' = pending \ {l}
        /\ op' = "getNextQuestion"
        /\ UNCHANGED <<qs, answers, arg, result, answerCount, wentBack, questions,
                       isLoading, rendered, ruleVars, genVars,
                   loaderVars, fileVars,
                   walkVars, appVars, contentVars>>

\* the escape key
AsyncHandleBack ==
    /\ rendered.currentQuestionIndex > 0
    /\ currentQuestionIndex' = rendered.currentQuestionIndex - 1
    /\ op' = "handleBack"
    /\ UNCHANGED <<qs, answers, arg, result, isComplete, answerCount, completeCalled,
                   wentBack, asyncVars, ruleVars, genVars,
                   loaderVars, fileVars,
                   walkVars, appVars, contentVars>>

NextAsyncWizard ==
    \/ LoadQuestionsSettles
    \/ Render
    \/ AsyncHandleAnswer
    \/ GetNextQuestionSettles
    \/ AsyncHandleBack

SpecAsyncWizard == InitAsyncWizard /\ [][NextAsyncWizard]_vars

----------------------------------------------------------------------------
(* Text.  A string is the sequence of its pieces: a piece is a run of      *)
(* characters the program never looks inside, a line break, or one of the  *)
(* markers the program searches for.  Two texts are the same bytes exactly *)
(* when they are the same sequence.                                        *)

Newline == "\n"
Blank == <<>>
TestingFrameworks == "{{testing_frameworks}}"
IfTdd == "{{#if tdd}}"
EndIf == "{{/if}}"

RangeOf(s) == { s[i] : i \in 1..Len(s) }

\* Array.prototype.join
RECURSIVE join(_, _)
join(parts, separator) ==
    IF Len(parts) = 0 THEN <<>>
    ELSE IF Len(parts) = 1 THEN parts[1]
    ELSE parts[1] \o separator \o join(Tail(parts), separator)

\* String.prototype.indexOf for one piece: 1-based, 0 when absent
indexOf(text, piece) ==
    IF piece \in RangeOf(text)
    THEN CHOOSE i \in 1..Len(text) :
            text[i] = piece /\ \A j \in 1..(i - 1) : text[j] # piece
    ELSE 0

\* String.prototype.replace with a string pattern: the first occurrence only
replaceFirst(text, piece, replacement) ==
    LET i == indexOf(text, piece) IN
    IF i = 0 THEN text
    ELSE SubSeq(text, 1, i - 1) \o replacement \o SubSeq(text, i + 1, Len(text))

\* replace(/{{#if tdd}}([\s\S]*?){{\/if}}/g, keep ? '$1' : ''): every block
\* from an opening marker to the nearest closing marker after it
RECURSIVE replaceIfBlocks(_, _)
replaceIfBlocks(text, keep) ==
    LET open == indexOf(text, IfTdd)
        rest == SubSeq(text, open + 1, Len(text))
        close == indexOf(rest, EndIf)
    IN IF open = 0 \/ close = 0 THEN text
       ELSE SubSeq(text, 1, open - 1)
            \o (IF keep THEN SubSeq(rest, 1, close - 1) ELSE <<>>)
            \o replaceIfBlocks(SubSeq(rest, close + 1, Len(rest)), keep)

----------------------------------------------------------------------------
(* resources/content/mapping/content-mapping.ts                            *)

ContentPath(dir, name) == <<"categories/", dir, "/", name, ".md">>

ContentRule(key, dir, name, section, priority) ==
    [key |-> key, contentPath |-> ContentPath(dir, name),
     section |-> section, priority |-> priority]

contentMapping == <<
    ContentRule("tdd", "philosophy", "tdd", "philosophy", 1),
    ContentRule("strictArchitecture", "philosophy", "strict-architecture", "philosophy", 2),
    ContentRule("functionalProgramming", "philosophy", "functional-programming", "philosophy", 3),
    ContentRule("typescript", "project", "typescript", "language", 1),
    ContentRule("eslint", "tools", "eslint", "tools", 1),
    ContentRule("testing", "tools", "testing", "tools", 2),
    ContentRule("accessibility", "quality", "accessibility", "quality", 1),
    ContentRule("security", "quality", "security", "quality", 2) >>

condition(key, cfg) ==
    CASE key = "tdd"                   -> cfg.philosophy.tdd
      [] key = "strictArchitecture"    -> cfg.philosophy.strictArchitecture
      [] key = "functionalProgramming" -> cfg.philosophy.functionalProgramming
      [] key = "typescript"            -> cfg.projectType = "typescript"
      [] key = "eslint"                -> cfg.tools.eslint
      [] key = "testing"               -> Len(cfg.tools.testing) > 0
      [] key = "accessibility"         -> cfg.quality.accessibility
      [] key = "security"              -> cfg.quality.security

\* sort((a, b) => a.priority - b.priority): the sort is stable, so an element
\* goes behind every element whose priority is not greater
insertAscending(sorted, x) ==
    LET notAfter(e) == e.priority <= x.priority
        after(e) == e.priority > x.priority
    IN SelectSeq(sorted, notAfter) \o <<x>> \o SelectSeq(sorted, after)

\* mutant: the list is left in the order it has
byPriorityAscending_Unsorted(list) == list

RECURSIVE byPriorityAscending(_)
byPriorityAscending(list) ==
    IF list = <<>> THEN <<>>
    ELSE insertAscending(byPriorityAscending(SubSeq(list, 1, Len(list) - 1)),
                         list[Len(list)])

getApplicableContent(cfg) ==
    LET applies(rule) == condition(rule.key, cfg)
    IN byPriorityAscending(SelectSeq(contentMapping, applies))

----------------------------------------------------------------------------
(* resources/content/loaders/ContentLoader.ts                              *)

\* a cache hit that hands back the empty text instead of the cached text
loadContentFile_HitIsEmpty(cache, disk, contentPath) ==
    IF contentPath \in DOMAIN cache
    THEN [ok |-> TRUE, content |-> <<>>, cache |-> cache]
    ELSE IF contentPath \notin DOMAIN disk
    THEN [ok |-> FALSE, content |-> <<>>, cache |-> cache]
    ELSE [ok |-> TRUE, content |-> disk[contentPath],
          cache |-> Put(cache, contentPath, disk[contentPath])]

\* ok = FALSE is fs.readFile rejecting; nothing is cached then
loadContentFile(cache, disk, contentPath) ==
    IF contentPath \in DOMAIN cache
    THEN [ok |-> TRUE, content |-> cache[contentPath], cache |-> cache]
    ELSE IF contentPath \notin DOMAIN disk
    THEN [ok |-> FALSE, content |-> <<>>, cache |-> cache]
    ELSE [ok |-> TRUE, content |-> disk[contentPath],
          cache |-> Put(cache, contentPath, disk[contentPath])]

processContentVariables(content, cfg) ==
    LET replaced ==
            IF Len(cfg.tools.testing) > 0
            THEN replaceFirst(content, TestingFrameworks,
                    join([i \in 1..Len(cfg.tools.testing) |-> <<cfg.tools.testing[i]>>],
                         <<" and ">>))
            ELSE content
    IN replaceIfBlocks(replaced, cfg.philosophy.tdd)

getContentId(contentPath) ==
    LET noPrefix == IF Len(contentPath) > 0 /\ contentPath[1] = "categories/"
                    THEN Tail(contentPath) ELSE contentPath
        noSuffix == IF Len(noPrefix) > 0 /\ noPrefix[Len(noPrefix)] = ".md"
                    THEN SubSeq(noPrefix, 1, Len(noPrefix) - 1) ELSE noPrefix
    IN [i \in 1..Len(noSuffix) |-> IF noSuffix[i] = "/" THEN "-" ELSE noSuffix[i]]

\* the loop of loadContentForConfig: a file that fails to load is skipped
RECURSIVE loadSections(_, _, _, _)
loadSections(applicableRules, cfg, cache, disk) ==
    IF applicableRules = <<>> THEN [sections |-> <<>>, cache |-> cache]
    ELSE LET rule == Head(applicableRules)
             loaded == loadContentFile(cache, disk, rule.contentPath)
             rest == loadSections(Tail(applicableRules), cfg, loaded.cache, disk)
             section == [id |-> getContentId(rule.contentPath),
                         section |-> rule.section,
                         content |-> processContentVariables(loaded.content, cfg),
                         priority |-> rule.priority]
         IN [sections |-> IF loaded.ok THEN <<section>> \o rest.sections
                          ELSE rest.sections,
             cache |-> rest.cache]

loadContentForConfig(cfg, cache, disk) ==
    LET loaded == loadSections(getApplicableContent(cfg), cfg, cache, disk)
    IN [sections |-> byPriorityAscending(loaded.sections), cache |-> loaded.cache]

----------------------------------------------------------------------------
(* core/template-engine: TemplateEngine.  A document is built as the array *)
(* sections of its lines and joined with line breaks.  The pictographs of *)
(* the README headings are left out of the pieces, and a backquote is      *)
(* written as a single quote.                                              *)

PrincipleLimit == 10
NoValue == "<undefined>"
Formats == {"claude", "vscode", "readme", "cursor", "copilot", "roocode"}

\* Date.prototype.toLocaleDateString: the text of the calendar date
toLocaleDateString(date) == <<ToString(date)>>

\* a boolean inside a template literal
BooleanText(b) == IF b THEN "true" ELSE "false"

\* String.prototype.split('\n')
RECURSIVE split(_)
split(text) ==
    LET i == indexOf(text, Newline) IN
    IF i = 0 THEN <<text>>
    ELSE <<SubSeq(text, 1, i - 1)>> \o split(SubSeq(text, i + 1, Len(text)))

\* String.prototype.trim on a line: the indentation pieces at both ends go,
\* and so does the white space at the outer edge of the outermost pieces
WhitespacePieces == {"  "}
TrimPieceStart(piece) ==
    CASE piece = " and " -> "and "
      [] piece = " for testing" -> "for testing"
      [] OTHER -> piece
TrimPieceEnd(piece) ==
    CASE piece = "- " -> "-"
      [] piece = "Use " -> "Use"
      [] piece = " and " -> " and"
      [] OTHER -> piece
RECURSIVE stripStart(_)
stripStart(line) ==
    IF Len(line) > 0 /\ line[1] \in WhitespacePieces THEN stripStart(Tail(line))
    ELSE line
RECURSIVE stripEnd(_)
stripEnd(line) ==
    IF Len(line) > 0 /\ line[Len(line)] \in WhitespacePieces
    THEN stripEnd(SubSeq(line, 1, Len(line) - 1))
    ELSE line
trim(line) ==
    LET inner == stripEnd(stripStart(line)) IN
    IF Len(inner) = 0 THEN inner
    ELSE IF Len(inner) = 1 THEN <<TrimPieceEnd(TrimPieceStart(inner[1]))>>
    ELSE <<TrimPieceStart(inner[1])>> \o SubSeq(inner, 2, Len(inner) - 1)
         \o <<TrimPieceEnd(inner[Len(inner)])>>

\* line.trim().startsWith('- ') and line.trim().substring(2)
startsWithDash(line) == Len(trim(line)) > 0 /\ trim(line)[1] = "- "
afterDash(line) == Tail(trim(line))

\* line.includes('##')
includesHashes(line) == \E i \in 1..Len(line) : line[i] \in {"## ", "### "}

\* String.prototype.toLowerCase, piece by piece
LowerPiece(piece) ==
    CASE piece = "Write tests first" -> "write tests first"
      [] piece = "Ensure coverage" -> "ensure coverage"
      [] piece = "Use " -> "use "
      [] piece = "Use" -> "use"
      [] piece = "Follow TDD practices" -> "follow tdd practices"
      [] piece = "Aim for high test coverage" -> "aim for high test coverage"
      [] piece = TestingFrameworks -> TestingFrameworks
      [] OTHER -> piece
toLowerCase(text) == [i \in 1..Len(text) |-> LowerPiece(text[i])]

\* text.includes(word) for the two words convertContentToRules looks for
PiecesIncluding(word) ==
    CASE word = "ensure" -> {"ensure coverage"}
      [] word = "generate" -> {"generate types"}
      [] OTHER -> {}
includesWord(text, word) == \E i \in 1..Len(text) : text[i] \in PiecesIncluding(word)

shouldGenerate(format, requestedFormats) ==
    IF Len(requestedFormats) = 0 THEN format = "claude" \/ format = "readme"
    ELSE format \in RangeOf(requestedFormats) \/ "all" \in RangeOf(requestedFormats)

\* the keys of an object in insertion order
RECURSIVE firstOccurrences(_)
firstOccurrences(list) ==
    IF list = <<>> THEN <<>>
    ELSE LET front == firstOccurrences(SubSeq(list, 1, Len(list) - 1))
             last == list[Len(list)]
         IN IF last \in RangeOf(front) THEN front ELSE Append(front, last)

\* mutant: the entries of a key are collected last to first
groupContentBySection_Reversed(contentSections) ==
    LET keys == firstOccurrences([i \in 1..Len(contentSections) |->
                                    contentSections[i].section])
    IN [k \in 1..Len(keys) |->
          LET inSection(s) == s.section = keys[k]
              items == SelectSeq(contentSections, inSection)
          IN [name |-> keys[k],
              items |-> [i \in 1..Len(items) |-> items[Len(items) + 1 - i]]]]

\* groupContentBySection: the entries of `grouped`, in key order
groupContentBySection(contentSections) ==
    LET keys == firstOccurrences([i \in 1..Len(contentSections) |->
                                    contentSections[i].section])
    IN [k \in 1..Len(keys) |->
          LET inSection(s) == s.section = keys[k]
          IN [name |-> keys[k], items |-> SelectSeq(contentSections, inSection)]]

Capitalized(sectionName) ==
    CASE sectionName = "project" -> "Project"
      [] sectionName = "output" -> "Output"
      [] OTHER -> sectionName

getSectionTitle(sectionName) ==
    CASE sectionName = "philosophy"     -> "Development Philosophy"
      [] sectionName = "language"       -> "Language-Specific Guidelines"
      [] sectionName = "tools"          -> "Development Tools & Quality"
      [] sectionName = "quality"        -> "Quality Assurance"
      [] sectionName = "infrastructure" -> "Infrastructure & Operations"
      [] OTHER                          -> Capitalized(sectionName)

sectionOrder == <<"philosophy", "language", "tools", "quality", "infrastructure">>

\* the lines one pass of the sectionOrder loop pushes, with the test left out
claudeSection_NoGuard(groupedContent, sectionName) ==
    LET present == { k \in 1..Len(groupedContent) : groupedContent[k].name = sectionName }
        sectionContent == IF present = {} THEN <<>>
                          ELSE groupedContent[CHOOSE k \in present : TRUE].items
    IN << <<"## ", getSectionTitle(sectionName)>>, Blank >>
       \o join([i \in 1..Len(sectionContent) |->
                   <<sectionContent[i].content, Blank>>], <<>>)

\* the lines one pass of the sectionOrder loop pushes
claudeSection(groupedContent, sectionName) ==
    LET present == { k \in 1..Len(groupedContent) : groupedContent[k].name = sectionName }
        sectionContent == groupedContent[CHOOSE k \in present : TRUE].items
    IN IF present # {} /\ Len(sectionContent) > 0
       THEN << <<"## ", getSectionTitle(sectionName)>>, Blank >>
            \o join([i \in 1..Len(sectionContent) |->
                        <<sectionContent[i].content, Blank>>], <<>>)
       ELSE <<>>

generateClaudeInstructions(cfg, contentSections, date) ==
    LET groupedContent == groupContentBySection(contentSections)
        sections ==
            << <<"# Development Guidelines for ", cfg.output.projectName>>, Blank >>
            \o join([i \in 1..Len(sectionOrder) |->
                        claudeSection(groupedContent, sectionOrder[i])], <<>>)
            \o << <<"Generated on ">> \o toLocaleDateString(date)
                  \o <<" for ", cfg.projectType, " project">> >>
    IN join(sections, <<Newline>>)

extractGuidelinesFromContent(cfg) ==
    (IF cfg.philosophy.tdd
     THEN << <<"**Test-Driven Development**: Write tests before implementation">> >>
     ELSE <<>>)
    \o (IF cfg.philosophy.strictArchitecture
        THEN << <<"**Strict Architecture**: Enforced architectural boundaries">> >>
        ELSE <<>>)
    \o (IF cfg.philosophy.functionalProgramming
        THEN << <<"**Functional Programming**: Immutable data and pure functions">> >>
        ELSE <<>>)
    \o (IF cfg.tools.eslint
        THEN << <<"**Code Quality**: ESLint for consistent code style">> >>
        ELSE <<>>)
    \o (IF cfg.quality.accessibility
        THEN << <<"**Accessibility**: WCAG compliance required">> >>
        ELSE <<>>)

generateReadme(cfg, contentSections, date) ==
    LET guidelines == extractGuidelinesFromContent(cfg)
        sections ==
            << <<"# ", cfg.output.projectName>>, Blank,
               <<"> Generated development guidelines and project setup">>, Blank,
               <<"## Quick Start">>, Blank,
               <<"### Prerequisites">>, <<"- Node.js 18+">> >>
            \o (IF cfg.projectType = "typescript" THEN << <<"- TypeScript">> >> ELSE <<>>)
            \o << Blank,
                  <<"### Installation">>, <<"'''bash">>, <<"npm install">>, <<"'''">>, Blank,
                  <<"### Development">>, <<"'''bash">>, <<"npm run dev">>, <<"'''">>, Blank >>
            \o (IF cfg.philosophy.tdd
                THEN << <<"## Testing">>, Blank,
                        <<"This project follows **Test-Driven Development (TDD)**.">>, Blank,
                        <<"'''bash">>, <<"npm test">>, <<"npm run test:watch">>, <<"'''">>,
                        Blank >>
                ELSE <<>>)
            \o << <<"## Development Guidelines">>, Blank,
                  <<"This project follows structured development guidelines:">>, Blank >>
            \o [i \in 1..Len(guidelines) |-> <<"- ">> \o guidelines[i]]
            \o << Blank, <<"## Technology Stack">>, Blank,
                  <<"- **Language**: ", cfg.projectType>> >>
            \o (IF Len(cfg.tools.testing) > 0
                THEN << <<"- **Testing**: ">>
                        \o join([i \in 1..Len(cfg.tools.testing) |->
                                    <<cfg.tools.testing[i]>>], <<", ">>) >>
                ELSE <<>>)
            \o (IF cfg.tools.uiFramework # NoValue /\ cfg.tools.uiFramework # "none"
                THEN << <<"- **UI Framework**: ", cfg.tools.uiFramework>> >> ELSE <<>>)
            \o (IF cfg.tools.stateManagement # NoValue /\ cfg.tools.stateManagement # "none"
                THEN << <<"- **State Management**: ", cfg.tools.stateManagement>> >>
                ELSE <<>>)
            \o << Blank, <<"## Documentation">>, Blank,
                  <<"- See 'CLAUDE.md' for detailed AI assistant instructions">> >>
            \o (IF "vscode" \in RangeOf(cfg.output.formats)
                THEN << <<"- Import '.vscode/settings.json' for IDE configuration">> >>
                ELSE <<>>)
            \o << Blank, <<"Generated on ">> \o toLocaleDateString(date) >>
    IN join(sections, <<Newline>>)

\* the first PrincipleLimit list lines of the fragments
principlesOf(content) ==
    LET lines == split(content)
        isPrinciple(line) == startsWithDash(line) /\ ~includesHashes(line)
        kept == SelectSeq(lines, isPrinciple)
    IN [i \in 1..Len(kept) |-> afterDash(kept[i])]

extractPrinciplesFromContent(contentSections) ==
    LET principles == join([i \in 1..Len(contentSections) |->
                              principlesOf(contentSections[i].content)], <<>>)
    IN SubSeq(principles, 1, IF Len(principles) < PrincipleLimit
                             THEN Len(principles) ELSE PrincipleLimit)

convertContentToRules(content) ==
    LET lines == split(content)
        kept == SelectSeq(lines, startsWithDash)
    IN [i \in 1..Len(kept) |->
          LET rule == afterDash(kept[i]) IN
          IF /\ ~includesWord(toLowerCase(rule), "generate")
             /\ ~includesWord(toLowerCase(rule), "ensure")
          THEN <<"Generate code that ">> \o toLowerCase(rule)
          ELSE rule]

generateCursorRules(cfg, contentSections, date) ==
    LET principles == extractPrinciplesFromContent(contentSections)
        sections ==
            << <<"# Cursor Rules for ", cfg.output.projectName>>, Blank,
               <<"## Project Configuration">>,
               <<"- Language: ", cfg.projectType>>,
               <<"- TDD: ", IF cfg.philosophy.tdd THEN "Required" ELSE "Optional">>,
               <<"- Architecture: ",
                 IF cfg.philosophy.strictArchitecture THEN "Strict" ELSE "Flexible">>,
               Blank,
               <<"## Core Principles">> >>
            \o [i \in 1..Len(principles) |-> <<"- ">> \o principles[i]]
            \o << Blank, <<"Generated on ">> \o toLocaleDateString(date) >>
    IN join(sections, <<Newline>>)

generateCopilotInstructions(cfg, contentSections, date) ==
    LET groupedContent == groupContentBySection(contentSections)
        entry(k) ==
            IF Len(groupedContent[k].items) > 0
            THEN << <<"### ", getSectionTitle(groupedContent[k].name)>> >>
                 \o [i \in 1..Len(groupedContent[k].items) |->
                        groupedContent[k].items[i].content]
                 \o << Blank >>
            ELSE <<>>
        sections ==
            << <<"# GitHub Copilot Instructions for ", cfg.output.projectName>>, Blank,
               <<"This file provides specific instructions for GitHub Copilot to follow when working on this project.">>,
               Blank,
               <<"## Project Context">>,
               <<"- **Language**: ", cfg.projectType>>,
               <<"- **Architecture**: ",
                 IF cfg.philosophy.strictArchitecture THEN "Strict" ELSE "Flexible">>,
               <<"- **Testing Approach**: ",
                 IF cfg.philosophy.tdd THEN "Test-Driven Development"
                 ELSE "Standard Testing">>,
               Blank,
               <<"## Code Generation Guidelines">>, Blank >>
            \o join([k \in 1..Len(groupedContent) |-> entry(k)], <<>>)
            \o << <<"Generated on ">> \o toLocaleDateString(date) >>
    IN join(sections, <<Newline>>)

generateRooCodeInstructions(cfg, contentSections, date) ==
    LET groupedContent == groupContentBySection(contentSections)
        rulesOf(content) ==
            [i \in 1..Len(convertContentToRules(content)) |->
                <<"- ">> \o convertContentToRules(content)[i]]
        entry(k) ==
            IF Len(groupedContent[k].items) > 0
            THEN << <<"### ", getSectionTitle(groupedContent[k].name), " Rules">> >>
                 \o join([i \in 1..Len(groupedContent[k].items) |->
                            rulesOf(groupedContent[k].items[i].content)], <<>>)
                 \o << Blank >>
            ELSE <<>>
        sections ==
            << <<"# Roo Code Instructions for ", cfg.output.projectName>>, Blank,
               <<"## Project Configuration">>,
               <<"'''yaml">>,
               <<"project:">>,
               <<"  name: \"", cfg.output.projectName, "\"">>,
               <<"  type: ", cfg.projectType>>,
               <<"  tdd: ", BooleanText(cfg.philosophy.tdd)>>,
               <<"  strict_architecture: ", BooleanText(cfg.philosophy.strictArchitecture)>>,
               <<"  functional_programming: ",
                 BooleanText(cfg.philosophy.functionalProgramming)>>,
               <<"'''">>,
               Blank,
               <<"## Generation Rules">>, Blank >>
            \o join([k \in 1..Len(groupedContent) |-> entry(k)], <<>>)
            \o << <<"# Generated on ">> \o toLocaleDateString(date) >>
    IN join(sections, <<Newline>>)

\* JSON.stringify(vscodeConfig, null, 2): the keys of settings in insertion
\* order, then the recommended extensions
generateVSCodeSettings(cfg) ==
    <<"settings", "editor.formatOnSave", "editor.codeActionsOnSave">>
    \o (IF cfg.projectType = "typescript"
        THEN <<"typescript.preferences.includePackageJsonAutoImports",
               "typescript.preferences.noSemicolons">>
        ELSE <<>>)
    \o (IF cfg.tools.eslint THEN <<"eslint.validate">> ELSE <<>>)
    \o <<"extensions", "recommendations">>
    \o (IF cfg.projectType = "typescript"
        THEN <<"ms-vscode.vscode-typescript-next">> ELSE <<>>)
    \o (IF cfg.tools.eslint THEN <<"dbaeumer.vscode-eslint">> ELSE <<>>)
    \o (IF "vitest" \in RangeOf(cfg.tools.testing)
        THEN <<"zixuanchen.vitest-explorer">> ELSE <<>>)
    \o (IF "jest" \in RangeOf(cfg.tools.testing) THEN <<"orta.vscode-jest">> ELSE <<>>)
    \o (IF cfg.tools.uiFramework = "react"
        THEN <<"burkeholland.simple-react-snippets">> ELSE <<>>)

\* generateInstructions run on the calendar date `date` by an engine whose
\* loader holds `cache`, over the content directory `disk`
generateInstructions(cfg, cache, disk, date) ==
    LET loaded == loadContentForConfig(cfg, cache, disk)
        contentSections == loaded.sections
        document(format) ==
            CASE format = "claude"  -> generateClaudeInstructions(cfg, contentSections, date)
              [] format = "vscode"  -> generateVSCodeSettings(cfg)
              [] format = "readme"  -> generateReadme(cfg, contentSections, date)
              [] format = "cursor"  -> generateCursorRules(cfg, contentSections, date)
              [] format = "copilot" -> generateCopilotInstructions(cfg, contentSections, date)
              [] format = "roocode" -> generateRooCodeInstructions(cfg, contentSections, date)
    IN [outputs |-> [format \in { f \in Formats : shouldGenerate(f, cfg.output.formats) }
                        |-> document(format)],
        conceptsUsed |-> [i \in 1..Len(contentSections) |-> contentSections[i].id],
        contentSections |-> contentSections,
        cache |-> loaded.cache]

----------------------------------------------------------------------------
(* The generator: engines are constructed, generateInstructions is called, *)
(* and the calendar moves on.                                              *)

\* most calls recorded in one behaviour
MaxRuns == 2
\* the calendar dates run from 0 to MaxDay
MaxDay == 1

ProjectConfig(projectType, flags, testing, formats) ==
    [projectType |-> projectType,
     philosophy |-> [tdd |-> "tdd" \in flags,
                     strictArchitecture |-> "strictArchitecture" \in flags,
                     functionalProgramming |-> "functionalProgramming" \in flags],
     tools |-> [eslint |-> "eslint" \in flags,
                testing |-> testing,
                uiFramework |-> IF projectType = "typescript" THEN "react" ELSE "none",
                stateManagement |-> IF "eslint" \in flags THEN "redux" ELSE NoValue],
     quality |-> [accessibility |-> "accessibility" \in flags,
                  security |-> "security" \in flags],
     output |-> [formats |-> formats, projectName |-> "My Project"]]

FlagSets ==
    { {}, {"tdd", "accessibility"},
      {"tdd", "strictArchitecture", "functionalProgramming", "eslint",
       "accessibility", "security"} }

TestingOf(flags) ==
    IF "eslint" \in flags THEN <<"vitest", "jest">>
    ELSE IF "tdd" \in flags THEN <<"vitest">>
    ELSE <<>>

\* no format asked for (claude and readme are generated), or all of them
FormatsOf(projectType) == IF projectType = "typescript" THEN <<"all">> ELSE <<>>

\* the configurations of the calls; one of them asks for a document the
\* engine has no generator for
GenConfigs ==
    { ProjectConfig(projectType, flags, TestingOf(flags),
                    IF projectType = "javascript" /\ "eslint" \in flags
                    THEN <<"claude", "pdf">> ELSE FormatsOf(projectType)) :
        projectType \in {"typescript", "javascript"},
        flags \in FlagSets }

\* a content file in the manner of categories/project/typescript.md
GuidelineFile(section) ==
    <<"## ", getSectionTitle(section), Newline,
      "- ", "Write tests first", Newline,
      "  ", "- ", "Ensure coverage">>

\* a content file in the manner of categories/tools/testing.md
TemplatedFile ==
    <<"### ", "Testing Guidelines", Newline,
      "- ", "Use ", TestingFrameworks, " for testing", Newline,
      IfTdd, Newline,
      "- ", "Follow TDD practices", Newline,
      EndIf, Newline,
      "- ", "Aim for high test coverage">>

RuleAtPath(contentPath) ==
    contentMapping[CHOOSE k \in 1..Len(contentMapping) :
                      contentMapping[k].contentPath = contentPath]

\* every content file is there; a guideline file ends with a line of its
\* own, and typescript.md names the testing frameworks as testing.md does
CompleteDisk ==
    [contentPath \in { contentMapping[k].contentPath : k \in 1..Len(contentMapping) } |->
        IF RuleAtPath(contentPath).key = "testing" THEN TemplatedFile
        ELSE IF RuleAtPath(contentPath).key = "typescript"
        THEN <<"- ", "Type the tests for ", TestingFrameworks, Newline,
               "- ", contentPath[4]>>
        ELSE GuidelineFile(RuleAtPath(contentPath).section)
             \o <<Newline, "- ", contentPath[4]>>]

\* only tdd.md, functional-programming.md and testing.md are there
SparseDisk ==
    [contentPath \in { ContentPath("philosophy", "tdd"),
                       ContentPath("philosophy", "functional-programming"),
                       ContentPath("tools", "testing") } |->
        CompleteDisk[contentPath]]

\* every content file is there and is empty
HollowDisk == [contentPath \in DOMAIN CompleteDisk |-> <<>>]

DiskLayouts == {CompleteDisk, SparseDisk, HollowDisk}

InitGenerator ==
    /\ files \in DiskLayouts
    /\ contentCache = <<>>
    /\ today = 0
    /\ runs = <<>>
    /\ op = "idle"
    /\ arg = NullId
    /\ result = 0
    /\ ResolverIdle
    /\ WizardIdle
    /\ AsyncIdle
    /\ LoaderIdle
    /\ FilesIdle
    /\ WalkIdle
    /\ AppIdle
    /\ ContentIdle
    /\ RulesIdle

\* new TemplateEngine(): a loader with an empty cache
NewTemplateEngine ==
    /\ contentCache # <<>>
    /\ contentCache' = <<>>
    /\ UNCHANGED <<qs, answers, op, arg, result, wizardVars, ruleVars, asyncVars, files, today, runs,
                   loaderVars, fileVars,
                   walkVars, appVars, contentVars>>

CallGenerateInstructions ==
    /\ Len(runs) < MaxRuns
    /\ \E cfg \in GenConfigs :
        LET output == generateInstructions(cfg, contentCache, files, today) IN
        /\ runs' = Append(runs, [config |-> cfg,
                                 date |-> today,
                                 cached |-> DOMAIN contentCache,
                                 documents |-> output.outputs,
                                 conceptsUsed |-> output.conceptsUsed,
                                 contentSections |-> output.contentSections])
        /\ contentCache' = output.cache
    /\ op' = "generateInstructions"
    /\ UNCHANGED <<qs, answers, arg, result, wizardVars, ruleVars, asyncVars, files, today,
                   loaderVars, fileVars,
                   walkVars, appVars, contentVars>>

\* midnight
DayPasses ==
    /\ today < MaxDay
    /\ today' = today + 1
    /\ UNCHANGED <<qs, answers, op, arg, result, wizardVars, ruleVars, asyncVars, files, contentCache, runs,
                   loaderVars, fileVars,
                   walkVars, appVars, contentVars>>

NextGenerator == NewTemplateEngine \/ CallGenerateInstructions \/ DayPasses

SpecGenerator == InitGenerator /\ [][NextGenerator]_vars

----------------------------------------------------------------------------
(* The statements checked of the resolver and the validator.               *)

\* the satisfaction rule as the specification words it: every declared
\* prerequisite has an answer that is true (boolean), non-empty (array),
\* non-blank after trimming (string), and otherwise neither null nor undefined
ValueSatisfies(v) ==
    CASE v.t = "boolean" -> v.b
      [] v.t = "array"   -> v.a # <<>>
      [] v.t = "string"  -> \E i \in 1..Len(v.s) : v.s[i] \notin Whitespace
      [] OTHER           -> v.t # "null" /\ v.t # "undefined"

PrerequisitesSatisfied(question, A) ==
    \A dep \in question.dependencies : ValueSatisfies(Get(A, dep))

SatisfiedIndices(list, A) ==
    { j \in 1..Len(list) : PrerequisitesSatisfied(list[j], A) }

Min(S) == CHOOSE x \in S : \A y \in S : x <= y
Max(S) == CHOOSE x \in S : \A y \in S : x >= y

FirstSatisfiedAfter(list, i, A) ==
    LET later == { j \in SatisfiedIndices(list, A) : j > i } IN
    IF later = {} THEN 0 ELSE Min(later)

LastSatisfiedBefore(list, i, A) ==
    LET earlier == { j \in SatisfiedIndices(list, A) : j < i } IN
    IF earlier = {} THEN 0 ELSE Max(earlier)

NextOps == {"getNextQuestion", "CategoryManager.getNextQuestion"}
ArgIsQuestion == \E i \in 1..Len(qs) : qs[i].id = arg

\* C1 (as claimed): getNextQuestion(current, A) returns the question at the
\* smallest index after current whose prerequisites are all satisfied under
\* A, and null when there is none
C1_NextIsFirstSatisfied ==
    (op \in NextOps /\ ArgIsQuestion) =>
        result = FirstSatisfiedAfter(qs, FindIndex(qs, arg), answers)

\* C2 (as claimed): the question after current is offered by getNextQuestion
\* exactly when its prerequisites are satisfied by the rule above, so also
\* when its only prerequisite has a non-blank string answer
C2_OfferedIffSatisfied ==
    (op \in NextOps /\ ArgIsQuestion /\ FindIndex(qs, arg) < Len(qs)) =>
        (result = FindIndex(qs, arg) + 1
            <=> PrerequisitesSatisfied(qs[FindIndex(qs, arg) + 1], answers))

\* C9: getPreviousQuestion(current, A) returns the question at the largest
\* index below current whose prerequisites are all satisfied under A, and
\* null when current is the first question or there is none
C9_PreviousIsLastSatisfied ==
    (op = "CategoryManager.getPreviousQuestion" /\ ArgIsQuestion) =>
        result = LastSatisfiedBefore(qs, FindIndex(qs, arg), answers)

\* a backward scan that skipped a question and returned an earlier one
C9_Witness ==
    /\ op = "CategoryManager.getPreviousQuestion"
    /\ ArgIsQuestion
    /\ result > 0
    /\ result < FindIndex(qs, arg) - 1

\* C10 (as claimed): a currentId that is in no question behaves like null,
\* getNextQuestion returns the first question
C10_UnknownIdAsNull ==
    (op \in NextOps /\ ~ArgIsQuestion) => result = 1

\* C10 (amended): a non-empty currentId that is in no question makes
\* getNextQuestion return null; only null and the empty string return the
\* first question
C10_UnknownIdReturnsNull ==
    op \in NextOps =>
        /\ (~ArgIsQuestion /\ ~Falsy(arg)) => result = 0
        /\ Falsy(arg) => result = 1

C10_Witness ==
    /\ op = "getNextQuestion"
    /\ arg = UnknownId
    /\ result = 0

\* the validation errors that quote a question
ErrorsOf(question, errors) ==
    { k \in 1..Len(errors) : errors[k].text = question.text }

MissingRequired(question, A) ==
    /\ question.required
    /\ PrerequisitesSatisfied(question, A)
    /\ (Get(A, question.id).t \in {"null", "undefined"} \/ Get(A, question.id) = JStr(<<>>))

\* C3: validateAnswers reports exactly one error for each required question
\* whose prerequisites are satisfied and whose answer is absent or the empty
\* string, no missing-answer error for any other question, and isValid is
\* false iff the error list is non-empty
C3_MissingRequiredReported ==
    op = "validateAnswers" =>
        /\ \A i \in 1..Len(qs) :
              IF MissingRequired(qs[i], answers)
              THEN /\ Cardinality(ErrorsOf(qs[i], result.errors)) = 1
                   /\ \A k \in ErrorsOf(qs[i], result.errors) :
                          result.errors[k].msg = "required"
              ELSE \A k \in ErrorsOf(qs[i], result.errors) :
                          result.errors[k].msg # "required"
        /\ (result.isValid = FALSE <=> Len(result.errors) # 0)

\* a run that reports a required question answered with the empty string and
\* passes over a required, unanswered question whose prerequisites are unmet
C3_Witness ==
    /\ op = "validateAnswers"
    /\ \E i \in 1..Len(qs) :
          /\ Get(answers, qs[i].id) = JStr(<<>>)
          /\ MissingRequired(qs[i], answers)
    /\ \E j \in 1..Len(qs) :
          /\ qs[j].required
          /\ qs[j].id \notin DOMAIN answers
          /\ ~PrerequisitesSatisfied(qs[j], answers)
          /\ ErrorsOf(qs[j], result.errors) = {}
    /\ result.isValid = FALSE

----------------------------------------------------------------------------
(* The statements checked of the rule engine.                              *)

\* the value a dotted path names: the property of the configuration, or the
\* property of the object found there; undefined when a segment is missing
ValueAt(cfg, segments) ==
    IF Len(segments) = 1 THEN Get(cfg.top, segments[1])
    ELSE IF /\ Len(segments) = 2
            /\ Get(cfg.top, segments[1]).t = "object"
            /\ segments[1] \in DOMAIN cfg.kids
         THEN Get(cfg.kids[segments[1]], segments[2])
         ELSE Undefined

ConditionHolds(cfg, c) ==
    LET v == ValueAt(cfg, SplitDots(c.field, "")) IN
    \/ c.operator = "equals" /\ StrictEquals(v, c.value)
    \/ c.operator = "includes" /\ v.t = "array"
          /\ \E i \in 1..Len(v.a) : JStr(v.a[i]) = c.value
    \/ c.operator = "exists" /\ v.t \notin {"undefined", "null"} /\ v # JStr(<<>>)

Selected(i) == \E k \in 1..Len(result) : result[k] = rules[i].conceptId

\* the rule a position of the result comes from (concept ids are unique)
RuleAt(k) == CHOOSE i \in 1..Len(rules) : rules[i].conceptId = result[k]

\* C4: getApplicableConcepts selects a rule iff its condition list is empty
\* or at least one of its conditions matches the configuration
C4_SelectedIffAnyConditionMatches ==
    op = "getApplicableConcepts" =>
        \A i \in 1..Len(rules) :
            Selected(i) <=>
                \/ rules[i].conditions = <<>>
                \/ \E n \in 1..Len(rules[i].conditions) :
                        ConditionHolds(config, rules[i].conditions[n])

\* a run that selects a rule of two conditions on its second condition alone
\* and a rule on a nested path, and leaves a rule out
C4_Witness ==
    /\ op = "getApplicableConcepts"
    /\ \E i \in 1..Len(rules) : rules[i].conditions = <<eqArray, incl>> /\ Selected(i)
    /\ \E i \in 1..Len(rules) : rules[i].conditions = <<eqNested>> /\ Selected(i)
    /\ \E i \in 1..Len(rules) : ~Selected(i)

\* C5: the result is ordered by priority descending, and two selected rules
\* of equal priority appear in the order of their declaration
C5_PriorityDescendingStable ==
    op = "getApplicableConcepts" =>
        \A k, l \in 1..Len(result) :
            k < l =>
                \/ rules[RuleAt(k)].priority > rules[RuleAt(l)].priority
                \/ /\ rules[RuleAt(k)].priority = rules[RuleAt(l)].priority
                   /\ RuleAt(k) < RuleAt(l)

\* a result in which a rule declared last comes first and two rules of equal
\* priority follow in declaration order
C5_Witness ==
    /\ op = "getApplicableConcepts"
    /\ Len(result) = 3
    /\ RuleAt(1) = 3
    /\ rules[1].priority = rules[2].priority

----------------------------------------------------------------------------
(* The statements checked of the question wizard.                          *)

\* C8 (as claimed): in every state reached by answer and back actions the
\* question displayed has all its prerequisites satisfied under the current
\* answers
C8_DisplayedQuestionIsReachable ==
    ~isComplete => PrerequisitesSatisfied(qs[currentQuestionIndex + 1], answers)

----------------------------------------------------------------------------
(* The statements checked of the generator.  The content files are the    *)
(* same for every call of a behaviour.                                     *)

RunsOfSameConfig == { p \in (1..Len(runs)) \X (1..Len(runs)) :
                        runs[p[1]].config = runs[p[2]].config }

\* C6 (as claimed): two calls of generateInstructions with the same
\* configuration and the same content files produce identical text for every
\* document and the same conceptsUsed sequence, whenever the calls are made
\* and whatever the state of the content cache
C6_SameConfigSameOutput ==
    \A p \in RunsOfSameConfig :
        /\ runs[p[1]].documents = runs[p[2]].documents
        /\ runs[p[1]].conceptsUsed = runs[p[2]].conceptsUsed

\* C6 (amended): two calls of generateInstructions with the same configuration
\* and the same content files produce the same conceptsUsed sequence and the
\* same VS Code settings, cold cache or warm, and identical text for every
\* document when both calls are made on the same calendar date
C6_SameConfigSameDateSameOutput ==
    \A p \in RunsOfSameConfig :
        /\ runs[p[1]].conceptsUsed = runs[p[2]].conceptsUsed
        /\ "vscode" \in DOMAIN runs[p[1]].documents =>
                runs[p[1]].documents.vscode = runs[p[2]].documents.vscode
        /\ runs[p[1]].date = runs[p[2]].date =>
                runs[p[1]].documents = runs[p[2]].documents

\* a call on a cold cache and a later call on a warm cache, same configuration
\* and same date, that loaded fragments and agree
C6_Witness ==
    \E p \in RunsOfSameConfig :
        /\ p[1] < p[2]
        /\ runs[p[1]].date = runs[p[2]].date
        /\ runs[p[1]].cached = {}
        /\ runs[p[2]].cached # {}
        /\ Len(runs[p[1]].conceptsUsed) > 0
        /\ runs[p[1]].documents = runs[p[2]].documents

\* the header line of a section occurs in a document
ContainsHeader(doc, sectionName) ==
    \E k \in 1..(Len(doc) - 1) :
        doc[k] = "## " /\ doc[k + 1] = getSectionTitle(sectionName)

\* the sections with a fragment selected by the content rules
SelectedSections(cfg) ==
    { contentMapping[k].section :
        k \in { n \in 1..Len(contentMapping) : condition(contentMapping[n].key, cfg) } }

RECURSIVE PiecesOf(_)
PiecesOf(fragments) ==
    IF fragments = <<>> THEN 0
    ELSE Len(Head(fragments).content) + PiecesOf(Tail(fragments))

\* the size of a Claude document made of the title, the footer, one header
\* per section that has a fragment and the fragments, and of nothing else
ClaudeSize(fragments) ==
    9 + 4 * Cardinality({ fragments[k].section : k \in 1..Len(fragments) })
      + 2 * Len(fragments) + PiecesOf(fragments)

\* C7: a generated Claude document contains the header of a section only if
\* a selected fragment belongs to that section, and a section without a
\* selected fragment contributes neither a header nor any text
C7_HeaderOnlyForSelectedSection ==
    \A i \in 1..Len(runs) :
        "claude" \in DOMAIN runs[i].documents =>
            /\ \A s \in RangeOf(sectionOrder) :
                  ContainsHeader(runs[i].documents.claude, s)
                      => s \in SelectedSections(runs[i].config)
            /\ Len(runs[i].documents.claude) = ClaudeSize(runs[i].contentSections)

\* a Claude document with the header of a selected section and without the
\* header of a section that has no selected fragment
C7_Witness ==
    \E i \in 1..Len(runs) :
        /\ "claude" \in DOMAIN runs[i].documents
        /\ \E s \in SelectedSections(runs[i].config) :
              ContainsHeader(runs[i].documents.claude, s)
        /\ \E s \in RangeOf(sectionOrder) \ SelectedSections(runs[i].config) :
              /\ s # "infrastructure"
              /\ ~ContainsHeader(runs[i].documents.claude, s)

\* C11: when the user answers every question displayed and never goes back,
\* each answer moves the wizard to a strictly later question or calls
\* completeWizard, so completeWizard is called after at most N answers for a
\* list of N questions
C11_ForwardFlowCompletes ==
    /\ [][currentQuestionIndex' > currentQuestionIndex \/ completeCalled']_vars
    /\ [](~completeCalled => answerCount <= currentQuestionIndex)
    /\ [](answerCount <= Len(qs))
    /\ <>completeCalled

\* completeWizard was reached over a skipped question
C11_Witness ==
    /\ completeCalled
    /\ ~wentBack
    /\ answerCount > 0
    /\ answerCount < Len(qs)

----------------------------------------------------------------------------
(* The statements checked of the wizard over the loaded questions.         *)

\* the handleAnswer calls suspended at await getNextQuestion
pendingLookups == { l \in pending : l.kind = "lookup" }

\* the id of the question on the screen
displayedId ==
    IF QuestionDisplayed
    THEN rendered.questions[rendered.currentQuestionIndex + 1].id
    ELSE NullId

\* C12: recording an answer adds or overwrites exactly the key of the
\* current question and leaves every other entry as it was; a back action,
\* the settling of a next-question lookup and a render change no entry; no
\* answer or back action removes a key, also when the input arrives while
\* the lookup of an earlier answer is still pending.
C12_AnswerChangesOnlyCurrentKey ==
    [][ /\ op' = "handleAnswer" =>
            /\ DOMAIN answers' = (DOMAIN answers) \cup {displayedId}
            /\ \A k \in (DOMAIN answers) \ {displayedId} : answers'[k] = answers[k]
        /\ op' \in {"handleBack", "getNextQuestion", "render"} => answers' = answers
        /\ op' # "loadQuestions" =>
            \A k \in DOMAIN answers :
                k \in DOMAIN answers' /\ (k # displayedId => answers'[k] = answers[k])
      ]_vars

\* an answer has just been recorded while the lookup of an earlier answer
\* was pending, and an entry of another question is in the answer set
C12_Witness ==
    /\ op = "handleAnswer"
    /\ Cardinality(pendingLookups) >= 2
    /\ \E k \in DOMAIN answers : k # displayedId

----------------------------------------------------------------------------
(* The statements checked of the validator and the next-question lookups.  *)

\* the questions the lookup of questions.ts passes over when it is asked
\* for the question after the one before them
skippedByGetNextQuestion ==
    { i \in 2..Len(qs) : getNextQuestion(qs, qs[i - 1].id, answers) # i }

\* C13: a question that getNextQuestion skips under the answers contributes
\* no error to validateAnswers under the same answers.
C13_SkippedContributesNoError ==
    op = "validateAnswers" =>
        \A i \in skippedByGetNextQuestion :
            \A n \in 1..Len(result.errors) : result.errors[n].text # qs[i].text

\* the rule of the type of a question, broken by an answer
ViolatesTypeRule(question, answer) ==
    CASE question.type = "single" ->
            ~(answer.t = "string" /\ answer.s \in question.options)
      [] question.type = "multiple" ->
            \/ answer.t # "array"
            \/ \E n \in 1..Len(answer.a) : answer.a[n] \notin question.options
      [] question.type = "boolean" -> answer.t # "boolean"
      [] OTHER -> answer.t # "string"

\* the questions whose prerequisites are satisfied and whose answer is
\* neither undefined nor null
AnsweredReachable ==
    { i \in 1..Len(qs) :
        /\ PrerequisitesSatisfied(qs[i], answers)
        /\ Get(answers, qs[i].id).t \notin {"null", "undefined"} }

TypeErrors == {"invalid answer", "must be an array", "invalid options",
               "must be true or false", "must be text"}

\* C14 as stated: for every reachable question with a non-absent answer,
\* validateAnswers reports an error iff the answer breaks the rule of the
\* type of the question.
C14_ErrorIffTypeRuleViolated ==
    op = "validateAnswers" =>
        \A i \in AnsweredReachable :
            ErrorsOf(qs[i], result.errors) # {}
                <=> ViolatesTypeRule(qs[i], Get(answers, qs[i].id))

\* C14 amended: the same, except for the empty-string answer of a required
\* question, which is reported as missing whatever the type; the error of
\* every other answered reachable question is one error of its type rule.
C14_TypeErrorIffTypeRuleViolated ==
    op = "validateAnswers" =>
        \A i \in AnsweredReachable :
            LET answer == Get(answers, qs[i].id)
                reported == ErrorsOf(qs[i], result.errors)
            IN IF qs[i].required /\ answer = JStr(StrEmpty)
               THEN \A k \in reported : result.errors[k].msg = "required"
               ELSE /\ reported # {} <=> ViolatesTypeRule(qs[i], answer)
                    /\ Cardinality(reported) <= 1
                    /\ \A k \in reported : result.errors[k].msg \in TypeErrors

\* a run that reports an answer that breaks the rule of its question and
\* passes an answer that keeps the rule of its question
C14_Witness ==
    /\ op = "validateAnswers"
    /\ \E i, j \in AnsweredReachable :
          /\ ViolatesTypeRule(qs[i], Get(answers, qs[i].id))
          /\ \E k \in ErrorsOf(qs[i], result.errors) : result.errors[k].msg \in TypeErrors
          /\ ~ViolatesTypeRule(qs[j], Get(answers, qs[j].id))
          /\ ErrorsOf(qs[j], result.errors) = {}

----------------------------------------------------------------------------
(* The statements checked of the content-mapping pipeline.                 *)

\* the place of the rule of a section in the declaration of contentMapping
DeclaredAt(section) ==
    CHOOSE i \in 1..Len(contentMapping) :
        getContentId(contentMapping[i].contentPath) = section.id

\* the pairs of places of the sections a call has loaded, the first before
\* the second
SectionPairs(n) ==
    { p \in (1..Len(runs[n].contentSections)) \X (1..Len(runs[n].contentSections)) :
        p[1] < p[2] }

----------------------------------------------------------------------------
(* The statements checked of the assembly of the Claude document.          *)

\* the order of the sections as the statement gives it
StatedSectionOrder == <<"philosophy", "language", "tools", "quality", "infrastructure">>

\* the place of the first header line of a section in a document, 0: none
firstHeaderAt(doc, sectionName) ==
    LET at == { k \in 1..(Len(doc) - 1) :
                  doc[k] = "## " /\ doc[k + 1] = getSectionTitle(sectionName) }
    IN IF at = {} THEN 0 ELSE CHOOSE k \in at : \A m \in at : k <= m

\* the places in the loaded sequence of the fragments that have text
WithText(fragments) == { i \in 1..Len(fragments) : fragments[i].content # <<>> }

\* the place in a document of the last piece of a fragment, which no other
\* fragment has
fragmentAt(doc, fragment) == indexOf(doc, fragment.content[Len(fragment.content)])

\* C16: in the Claude document the sections come in the order philosophy,
\* language, tools, quality, infrastructure; every fragment stands under
\* the header of its section and before the header of any later section,
\* and the fragments of one section stand in the order they have in the
\* sequence of the loaded fragments.
C16_SectionsInFixedOrderFragmentsInLoadedOrder ==
    \A n \in 1..Len(runs) :
        "claude" \in DOMAIN runs[n].documents =>
            LET doc == runs[n].documents.claude
                fragments == runs[n].contentSections
                placeOf(name) == CHOOSE k \in 1..Len(StatedSectionOrder) :
                                    StatedSectionOrder[k] = name
            IN /\ \A a, b \in 1..Len(StatedSectionOrder) :
                     /\ a < b
                     /\ firstHeaderAt(doc, StatedSectionOrder[a]) # 0
                     /\ firstHeaderAt(doc, StatedSectionOrder[b]) # 0
                     => firstHeaderAt(doc, StatedSectionOrder[a])
                            < firstHeaderAt(doc, StatedSectionOrder[b])
               /\ \A i \in WithText(fragments) :
                     /\ firstHeaderAt(doc, fragments[i].section) # 0
                     /\ firstHeaderAt(doc, fragments[i].section) < fragmentAt(doc, fragments[i])
                     /\ \A b \in 1..Len(StatedSectionOrder) :
                           /\ placeOf(fragments[i].section) < b
                           /\ firstHeaderAt(doc, StatedSectionOrder[b]) # 0
                           => fragmentAt(doc, fragments[i])
                                  < firstHeaderAt(doc, StatedSectionOrder[b])
               /\ \A i, j \in WithText(fragments) :
                     i < j /\ fragments[i].section = fragments[j].section
                     => fragmentAt(doc, fragments[i]) < fragmentAt(doc, fragments[j])

\* a Claude document of three fragments of one section and of fragments of
\* other sections that were loaded between them
C16_Witness ==
    \E n \in 1..Len(runs) :
        /\ "claude" \in DOMAIN runs[n].documents
        /\ \E i, j, k \in WithText(runs[n].contentSections) :
              /\ i < j /\ j < k
              /\ runs[n].contentSections[i].section = "philosophy"
              /\ runs[n].contentSections[j].section = "quality"
              /\ runs[n].contentSections[k].section = "philosophy"
              /\ fragmentAt(runs[n].documents.claude, runs[n].contentSections[k])
                    < fragmentAt(runs[n].documents.claude, runs[n].contentSections[j])

----------------------------------------------------------------------------
(* The statements checked of the variables of a content file.              *)

\* C17: a placeholder whose value the configuration does not have is
\* rendered as the empty string: when no testing framework is selected, no
\* loaded fragment contains the placeholder of the testing frameworks.
C17_UnavailablePlaceholderRenderedEmpty ==
    \A n \in 1..Len(runs) :
        Len(runs[n].config.tools.testing) = 0 =>
            \A i \in 1..Len(runs[n].contentSections) :
                TestingFrameworks \notin RangeOf(runs[n].contentSections[i].content)

----------------------------------------------------------------------------
(* The statements checked of the requested formats.                        *)

\* C18: a call whose format list names a document the engine does not know
\* is answered with an error and not with an output: no call that returned
\* an output was made with such a list, and nothing was loaded or assembled
\* for it.
C18_UnknownDocumentTypeReported ==
    \A n \in 1..Len(runs) :
        RangeOf(runs[n].config.output.formats) \subseteq Formats \cup {"all"}

----------------------------------------------------------------------------
(* resources/questions/loaders/QuestionLoader.ts                           *)

\* a category file: its text parses or does not, and a text that parses
\* gives the order and the questions of the category
CategoryFile(parses, order, categoryQuestions) ==
    [parses |-> parses, order |-> order, questions |-> categoryQuestions]

\* categories.sort((a, b) => a.order - b.order), a stable sort
RECURSIVE byOrderAscending(_)
byOrderAscending(categories) ==
    IF categories = <<>> THEN <<>>
    ELSE LET last == categories[Len(categories)]
             front == byOrderAscending(SubSeq(categories, 1, Len(categories) - 1))
             notAfter(c) == c.order <= last.order
             after(c) == c.order > last.order
         IN SelectSeq(front, notAfter) \o <<last>> \o SelectSeq(front, after)

\* loadCategories: ok = FALSE is the Error it throws when a file cannot be
\* read or parsed
loadCategories(dir) ==
    IF \E k \in 1..Len(dir) : ~dir[k].parses
    THEN [ok |-> FALSE, categories |-> <<>>]
    ELSE [ok |-> TRUE, categories |-> byOrderAscending(dir)]

RECURSIVE flattenQuestions(_)
flattenQuestions(categories) ==
    IF categories = <<>> THEN <<>>
    ELSE Head(categories).questions \o flattenQuestions(Tail(categories))

\* the Map of createQuestionMap: a later question of an id replaces an
\* earlier one
createQuestionMap(allQuestions) ==
    [id \in { allQuestions[i].id : i \in 1..Len(allQuestions) } |->
        allQuestions[CHOOSE i \in 1..Len(allQuestions) :
                        /\ allQuestions[i].id = id
                        /\ \A j \in (i + 1)..Len(allQuestions) : allQuestions[j].id # id]]

\* the questions directory: a question list cut into two category files,
\* the files in the order of their names, the categories in either order
CategoryDirs ==
    { << CategoryFile(TRUE, orders[1], SubSeq(l, 1, cut)),
         CategoryFile(parses, orders[2], SubSeq(l, cut + 1, NQ)) >> :
        l \in QuestionLists, cut \in 1..(NQ - 1),
        orders \in {<<1, 2>>, <<2, 1>>}, parses \in BOOLEAN }

InitLoader ==
    /\ categoryFiles \in CategoryDirs
    /\ loadedQuestions = <<>>
    /\ op = "idle"
    /\ arg = NullId
    /\ result = 0
    /\ ResolverIdle
    /\ WizardIdle
    /\ AsyncIdle
    /\ RulesIdle
    /\ GeneratorIdle
    /\ FilesIdle
    /\ WalkIdle
    /\ AppIdle
    /\ ContentIdle

\* loadQuestions: result.ok = FALSE is the call throwing
CallLoadQuestions ==
    /\ op' = "loadQuestions"
    /\ IF loadedQuestions # <<>>
       THEN /\ result' = [ok |-> TRUE, loaded |-> loadedQuestions]
            /\ UNCHANGED loadedQuestions
       ELSE LET loaded == loadCategories(categoryFiles)
                allQuestions == flattenQuestions(loaded.categories)
            IN IF ~loaded.ok
               THEN /\ result' = [ok |-> FALSE, loaded |-> <<>>]
                    /\ UNCHANGED loadedQuestions
               ELSE /\ loadedQuestions' = [categories |-> loaded.categories,
                                           allQuestions |-> allQuestions,
                                           questionMap |-> createQuestionMap(allQuestions)]
                    /\ result' = [ok |-> TRUE, loaded |-> loadedQuestions']
    /\ UNCHANGED <<qs, answers, arg, wizardVars, ruleVars, asyncVars, genVars,
                   categoryFiles, fileVars,
                   walkVars, appVars, contentVars>>

clearCache ==
    /\ loadedQuestions # <<>>
    /\ loadedQuestions' = <<>>
    /\ op' = "clearCache"
    /\ UNCHANGED <<qs, answers, arg, result, wizardVars, ruleVars, asyncVars, genVars,
                   categoryFiles, fileVars,
                   walkVars, appVars, contentVars>>

NextLoader == CallLoadQuestions \/ clearCache

SpecLoader == InitLoader /\ [][NextLoader]_vars

----------------------------------------------------------------------------
(* The statements checked of the question loader.                          *)

\* C19: loadQuestions returns no question set in which a question names a
\* prerequisite that is itself, comes later in the order of the set, or
\* closes a cycle: in every set it returns, each prerequisite of a question
\* is a question before it.
C19_NoForwardOrCyclicPrerequisiteLoaded ==
    (op = "loadQuestions" /\ result.ok) => BackwardOnly(result.loaded.allQuestions)

----------------------------------------------------------------------------
(* core/file-generator: FileGenerator.  The output directory is the set of *)
(* its directories and the text of each of its files; a path is a tuple,   *)
(* <<name>> for a target and <<name, ".backup.", t>> for the backup made of *)
(* it at time t; a text is the sequence of its characters.                 *)

\* the values Date.now() takes run from 0 to MaxNow
MaxNow == 1
\* most generateFiles calls made on one generator
MaxCalls == 2

OutputRoot == "."

FileOptions == [overwrite : BOOLEAN, createBackups : BOOLEAN, dryRun : BOOLEAN]

\* fs.access succeeds
fileExists(dir, filePath) == filePath \in DOMAIN dir.files

\* ensureDirectoryExists
ensureDirectoryExists(dir, dirPath) == [dir EXCEPT !.dirs = @ \cup {dirPath}]

\* writeFile: threw = TRUE is the Error 'File already exists and overwrite
\* is disabled', and then no file record is returned
\* mutant: the copy is taken after the new content is written
writeFile_BackupAfterWrite(dir, opts, t, relativePath, content) ==
    LET exists == fileExists(dir, <<relativePath>>)
        backs == exists /\ opts.createBackups /\ ~opts.dryRun
        throws == exists /\ ~opts.overwrite /\ ~opts.dryRun
        writes == ~throws /\ ~opts.dryRun
        written == IF writes THEN Put(dir.files, <<relativePath>>, content) ELSE dir.files
    IN [threw |-> throws,
        dir |-> [dir EXCEPT !.files =
                    IF backs THEN Put(written, <<relativePath, ".backup.", t>>,
                                      written[<<relativePath>>])
                    ELSE written],
        file |-> [path |-> relativePath, content |-> content, size |-> Len(content),
                  exists |-> exists, backed_up |-> backs]]

writeFile(dir, opts, t, relativePath, content) ==
    LET exists == fileExists(dir, <<relativePath>>)
        backs == exists /\ opts.createBackups /\ ~opts.dryRun
        backedUp == IF backs
                    THEN Put(dir.files, <<relativePath, ".backup.", t>>,
                             dir.files[<<relativePath>>])
                    ELSE dir.files
        throws == exists /\ ~opts.overwrite /\ ~opts.dryRun
    IN [threw |-> throws,
        dir |-> [dir EXCEPT !.files = IF throws \/ opts.dryRun THEN backedUp
                                      ELSE Put(backedUp, <<relativePath>>, content)],
        file |-> [path |-> relativePath, content |-> content, size |-> Len(content),
                  exists |-> exists, backed_up |-> backs]]

\* the texts of .vscode/settings.json: an object without and with the
\* extensions property, and a text that is not JSON
VsPlain == <<"{", "}">>
VsExtensions == <<"{", "e", "}">>
VsBroken == <<"{">>

\* extractExtensionsFromVSCode: <<>> stands for null
extractExtensionsFromVSCode(vscodeSettings) ==
    IF vscodeSettings = VsExtensions THEN <<"{", "r", "}">> ELSE <<>>

\* output.claude, output.vscode, ...: '' and undefined are not generated
has(output, format) == format \in DOMAIN output /\ output[format] # <<>>

\* the steps of generateFiles in their order: the directories it makes sure
\* of (not in a dry run) and the files it hands to writeFile
\* mutant: the directory is made sure of in a dry run as well
mkdir_Always(opts, dirPath) ==
    << [kind |-> "mkdir", path |-> dirPath, content |-> <<>>] >>

mkdir(opts, dirPath) ==
    IF opts.dryRun THEN <<>> ELSE << [kind |-> "mkdir", path |-> dirPath, content |-> <<>>] >>

write(relativePath, content) ==
    << [kind |-> "write", path |-> relativePath, content |-> content] >>

generateFilesSteps(output, opts) ==
    mkdir(opts, OutputRoot)
    \o (IF has(output, "claude") THEN write("CLAUDE.md", output.claude) ELSE <<>>)
    \o (IF has(output, "vscode")
        THEN mkdir(opts, ".vscode")
             \o write(".vscode/settings.json", output.vscode)
             \o (IF extractExtensionsFromVSCode(output.vscode) # <<>>
                 THEN write(".vscode/extensions.json",
                            extractExtensionsFromVSCode(output.vscode))
                 ELSE <<>>)
        ELSE <<>>)
    \o (IF has(output, "readme") THEN write("README.md", output.readme) ELSE <<>>)
    \o (IF has(output, "cursor") THEN write(".cursorrules", output.cursor) ELSE <<>>)
    \o (IF has(output, "copilot")
        THEN mkdir(opts, ".github")
             \o write(".github/copilot-instructions.md", output.copilot)
        ELSE <<>>)
    \o (IF has(output, "roocode")
        THEN mkdir(opts, ".roo/rules")
             \o write(".roo/rules/instructions.md", output.roocode)
        ELSE <<>>)
    \o write(".ai-rules-metadata.json", output.metadata)

\* the steps are taken one after the other until writeFile throws; calls is
\* the record of every writeFile call: the directory before and after it
RECURSIVE runSteps(_, _, _, _)
runSteps(steps, opts, t, state) ==
    IF steps = <<>> \/ state.threw THEN state
    ELSE LET step == Head(steps) IN
         IF step.kind = "mkdir"
         THEN runSteps(Tail(steps), opts, t,
                       [state EXCEPT !.dir = ensureDirectoryExists(state.dir, step.path)])
         ELSE LET written == writeFile(state.dir, opts, t, step.path, step.content)
                  call == [path |-> step.path, before |-> state.dir,
                           after |-> written.dir, threw |-> written.threw,
                           at |-> t, file |-> written.file]
              IN runSteps(Tail(steps), opts, t,
                          [dir |-> written.dir,
                           threw |-> written.threw,
                           files |-> IF written.threw THEN state.files
                                     ELSE Append(state.files, written.file),
                           calls |-> Append(state.calls, call)])

generateFiles(dir, opts, t, output) ==
    runSteps(generateFilesSteps(output, opts), opts, t,
             [dir |-> dir, threw |-> FALSE, files |-> <<>>, calls |-> <<>>])

\* the outputs handed to generateFiles: CLAUDE.md with plain settings, every
\* document, and an empty CLAUDE.md with settings that are not JSON
GeneratedOutputs ==
    { [claude |-> <<"c">>, vscode |-> VsPlain, metadata |-> <<"m">>],
      [claude |-> <<"c", "c">>, vscode |-> VsExtensions, readme |-> <<"r">>,
       cursor |-> <<"u">>, copilot |-> <<"p">>, roocode |-> <<"o">>,
       metadata |-> <<"m", "m">>],
      [claude |-> <<>>, vscode |-> VsBroken, metadata |-> <<"m">>] }

\* the output directory at the start: not there, or there with a CLAUDE.md
\* and a README.md
OutputDirs ==
    { [dirs |-> {}, files |-> <<>>],
      [dirs |-> {OutputRoot},
       files |-> [p \in {<<"CLAUDE.md">>, <<"README.md">>} |-> <<"o", "l", "d">>]] }

InitFileGenerator ==
    /\ outputDir \in OutputDirs
    /\ options \in FileOptions
    /\ now = 0
    /\ generated = <<>>
    /\ op = "idle"
    /\ arg = NullId
    /\ result = 0
    /\ ResolverIdle
    /\ WizardIdle
    /\ AsyncIdle
    /\ RulesIdle
    /\ GeneratorIdle
    /\ LoaderIdle
    /\ WalkIdle
    /\ AppIdle
    /\ ContentIdle

\* generateFiles on the generator constructed with the options; generated
\* is the record of every call: what it returned or that it threw
CallGenerateFiles ==
    /\ Len(generated) < MaxCalls
    /\ \E output \in GeneratedOutputs :
          LET done == generateFiles(outputDir, options, now, output) IN
          /\ outputDir' = done.dir
          /\ generated' = Append(generated,
                                 [output |-> output, threw |-> done.threw,
                                  files |-> done.files, calls |-> done.calls,
                                  before |-> outputDir, after |-> done.dir])
    /\ op' = "generateFiles"
    /\ UNCHANGED <<qs, answers, arg, result, wizardVars, ruleVars, asyncVars, genVars,
                   loaderVars, options, now, walkVars, appVars, contentVars>>

\* the clock moves on
Tick ==
    /\ now < MaxNow
    /\ now' = now + 1
    /\ UNCHANGED <<qs, answers, op, arg, result, wizardVars, ruleVars, asyncVars, genVars,
                   loaderVars, outputDir, options, generated,
                   walkVars, appVars, contentVars>>

NextFileGenerator == CallGenerateFiles \/ Tick

SpecFileGenerator == InitFileGenerator /\ [][NextFileGenerator]_vars

----------------------------------------------------------------------------
(* The statements checked of the file generator.                           *)

\* C20: a writeFile call for a file that exists, with overwrite disabled
\* and not in a dry run, throws and leaves the output directory as it was:
\* the file keeps its text and no backup or other file is made by the call.
C20_RefusedWriteLeavesDirectoryUnchanged ==
    \A n \in 1..Len(generated) : \A k \in 1..Len(generated[n].calls) :
        LET call == generated[n].calls[k] IN
        (/\ fileExists(call.before, <<call.path>>)
         /\ ~options.overwrite
         /\ ~options.dryRun)
        => call.threw /\ call.after = call.before

\* the paths and the texts of a list of file records
pathsAndContents(fileRecords) ==
    [k \in 1..Len(fileRecords) |->
        [path |-> fileRecords[k].path, content |-> fileRecords[k].content]]

\* the options of generateToDirectory: a run that writes
WritingOptions == [overwrite |-> TRUE, createBackups |-> FALSE, dryRun |-> FALSE]

\* C21: with dryRun a generateFiles call changes nothing in the output
\* directory (no directory made, no file written, no backup), does not
\* throw also when targets exist and overwrite is disabled, and returns the
\* paths and texts a writing run on the same output returns.
C21_DryRunChangesNothing ==
    options # <<>> /\ options.dryRun =>
        \A n \in 1..Len(generated) :
            /\ ~generated[n].threw
            /\ generated[n].after = generated[n].before
            /\ \A k \in 1..Len(generated[n].calls) :
                  generated[n].calls[k].after = generated[n].before
            /\ pathsAndContents(generated[n].files)
                 = pathsAndContents(generateFiles(generated[n].before, WritingOptions,
                                                  now, generated[n].output).files)

\* a dry run of every document, overwrite disabled, on a directory that
\* holds a target and lacks the sub-directories
C21_Witness ==
    /\ options # <<>> /\ options.dryRun /\ ~options.overwrite
    /\ \E n \in 1..Len(generated) :
          /\ \E k \in 1..Len(generated[n].files) : generated[n].files[k].exists
          /\ Len(generated[n].files) >= 7
          /\ ".vscode" \notin generated[n].before.dirs

\* the writeFile calls made so far
writeFileCalls ==
    UNION { { generated[n].calls[k] : k \in 1..Len(generated[n].calls) } :
            n \in 1..Len(generated) }

\* the call replaced the content of a file that was there
replacesExisting(call) ==
    /\ fileExists(call.before, <<call.path>>)
    /\ ~call.threw
    /\ ~options.dryRun

\* C27: when writeFile replaces an existing file with createBackups on, the
\* directory holds a backup with the file's previous content (taken before
\* the write, so never the new content), and a file record says backed_up
\* only if the file existed before the call.
C27_BackupHoldsPreviousContent ==
    \A call \in writeFileCalls :
        /\ (replacesExisting(call) /\ options.createBackups) =>
              /\ fileExists(call.after, <<call.path, ".backup.", call.at>>)
              /\ call.after.files[<<call.path, ".backup.", call.at>>]
                   = call.before.files[<<call.path>>]
        /\ call.file.backed_up => fileExists(call.before, <<call.path>>)

\* a call that put new content in place of different content, backed up
C27_Witness ==
    \E call \in writeFileCalls :
        /\ replacesExisting(call) /\ options.createBackups
        /\ call.file.backed_up
        /\ call.after.files[<<call.path>>] # call.before.files[<<call.path>>]

\* C23: once the questions are loaded, the answers hold every value given by
\* a flag, whichever of the flags effect and the loading completes first; no
\* default stands in place of a flag's value.
C23_FlagValuesPresentAfterLoading ==
    op = "loadQuestions" =>
        \A k \in DOMAIN rendered.flags : Get(answers, k) = rendered.flags[k]

\* the question's own prerequisites are satisfied under the answers
ownPrerequisitesMet(question, ans) ==
    question.dependencies = {} \/ checkDependencies(question.dependencies, ans)

\* C29: for a question q whose own prerequisites are satisfied, if
\* CategoryManager.getNextQuestion(q, A) returns r then
\* CategoryManager.getPreviousQuestion(r, A) returns q.
C29_PreviousOfNextIsCurrent ==
    (/\ op = "CategoryManager.getNextQuestion"
     /\ result # 0
     /\ FindIndex(qs, arg) # 0
     /\ ownPrerequisitesMet(qs[FindIndex(qs, arg)], answers))
    => CategoryManager_getPreviousQuestion(qs, qs[result].id, answers) = FindIndex(qs, arg)

\* getNextQuestion skipped a question on the way from q to r, and q has
\* prerequisites, which are satisfied
C29_Witness ==
    /\ op = "CategoryManager.getNextQuestion"
    /\ FindIndex(qs, arg) # 0
    /\ result > FindIndex(qs, arg) + 1
    /\ qs[FindIndex(qs, arg)].dependencies # {}
    /\ ownPrerequisitesMet(qs[FindIndex(qs, arg)], answers)

----------------------------------------------------------------------------
(* CategoryManager.getNextQuestion and getPreviousQuestion call by call:   *)
(* each invocation awaits the list, looks its currentQuestionId up and     *)
(* either settles or calls itself with the id of the question it skips.    *)

\* directories in which the second category file opens with a question that
\* has the id of the first file's question; nothing in loadCategories,
\* flattenQuestions or createQuestionMap compares ids
SharedIdDirs ==
    { << CategoryFile(TRUE, 1, SubSeq(l, 1, 1)),
         CategoryFile(TRUE, 2, <<[l[2] EXCEPT !.id = l[1].id]>> \o SubSeq(l, 3, NQ)) >> :
        l \in QuestionLists }

\* the lists getAllQuestions resolves with
LoadableLists ==
    { flattenQuestions(loadCategories(dir).categories) :
        dir \in { d \in CategoryDirs : loadCategories(d).ok } \cup SharedIdDirs }

WalkVals == { JBool(TRUE), JBool(FALSE) }

InitWalk ==
    /\ qs \in LoadableLists
    /\ answers \in AnswerSetsOver(WalkVals)
    /\ op = "idle"
    /\ arg = NullId
    /\ result = 0
    /\ walkId = NullId
    /\ depth = 0
    /\ WizardIdle
    /\ AsyncIdle
    /\ RulesIdle
    /\ GeneratorIdle
    /\ LoaderIdle
    /\ FilesIdle
    /\ AppIdle
    /\ ContentIdle

\* a caller calls getNextQuestion or getPreviousQuestion
CallWalk ==
    \E fn \in {"getNextQuestion", "getPreviousQuestion"}, id \in QIds \cup {NullId} :
        /\ op = "idle"
        /\ fn = "getPreviousQuestion" => id # NullId
        /\ op' = fn
        /\ arg' = id
        /\ walkId' = id
        /\ depth' = 0
        /\ UNCHANGED <<qs, answers, result, wizardVars, ruleVars, asyncVars, genVars,
                       loaderVars, fileVars, appVars, contentVars>>

\* the running invocation returns: the promise chain settles with the index
settle(found) ==
    /\ op' = "settled"
    /\ result' = found
    /\ UNCHANGED <<walkId, depth>>

\* the running invocation returns the promise of a call of itself
recurse(id) ==
    /\ depth <= Len(qs)
    /\ walkId' = id
    /\ depth' = depth + 1
    /\ UNCHANGED <<op, result>>

\* one invocation of getNextQuestion
StepGetNextQuestion ==
    /\ op = "getNextQuestion"
    /\ IF Falsy(walkId)
       THEN settle(IF Len(qs) > 0 THEN 1 ELSE 0)
       ELSE LET currentIndex == FindIndex(qs, walkId) IN
            IF currentIndex = 0 \/ currentIndex = Len(qs) THEN settle(0)
            ELSE LET nextQuestion == qs[currentIndex + 1] IN
                 IF /\ nextQuestion.dependencies # {}
                    /\ ~checkDependencies(nextQuestion.dependencies, answers)
                 THEN recurse(nextQuestion.id)
                 ELSE settle(currentIndex + 1)
    /\ UNCHANGED <<qs, answers, arg, wizardVars, ruleVars, asyncVars, genVars,
                   loaderVars, fileVars, appVars, contentVars>>

\* one invocation of getPreviousQuestion
StepGetPreviousQuestion ==
    /\ op = "getPreviousQuestion"
    /\ LET currentIndex == FindIndex(qs, walkId) IN
       IF currentIndex <= 1 THEN settle(0)
       ELSE LET previousQuestion == qs[currentIndex - 1] IN
            IF /\ previousQuestion.dependencies # {}
               /\ ~checkDependencies(previousQuestion.dependencies, answers)
            THEN recurse(previousQuestion.id)
            ELSE settle(currentIndex - 1)
    /\ UNCHANGED <<qs, answers, arg, wizardVars, ruleVars, asyncVars, genVars,
                   loaderVars, fileVars, appVars, contentVars>>

NextWalk ==
    \/ CallWalk
    \/ StepGetNextQuestion
    \/ StepGetPreviousQuestion

SpecWalk == InitWalk /\ [][NextWalk]_vars

\* C30: getNextQuestion and getPreviousQuestion settle after at most N
\* recursive calls on a list of N questions, for every list the loader can
\* return and every answer set.
C30_AtMostNRecursiveCalls ==
    depth <= Len(qs)

\* the concept is among the selected ones
selected(conceptId) == \E i \in 1..Len(result) : result[i] = conceptId

\* C24: for the ProjectConfig the wizard produces, getApplicableConcepts
\* over conceptRules selects 'tdd' iff philosophy.tdd is true, 'code-style'
\* iff tools.eslint is true and 'code-review' iff quality.codeReview is true.
C24_SelectedIffChoiceEnabled ==
    (op = "getApplicableConcepts" /\ rules = conceptRules /\ config \in WizardConfigs)
    => /\ selected("tdd") <=> config.kids["philosophy"]["tdd"] = JBool(TRUE)
       /\ selected("code-style") <=> config.kids["tools"]["eslint"] = JBool(TRUE)
       /\ selected("code-review") <=> config.kids["quality"]["codeReview"] = JBool(TRUE)

----------------------------------------------------------------------------
(* services/content/ContentManager.ts                                      *)

\* most initialize() calls suspended at one time
MaxInitializing == 2

ConceptIds == {"k1", "k2"}

\* this.index: null, or the index built over the concepts read
NoIndex == [null |-> TRUE, concepts |-> {}]
buildContentIndex(concepts) == [null |-> FALSE, concepts |-> concepts]

\* what a query does: it throws the Error of ensureInitialized or returns
Threw == [threw |-> TRUE, value |-> {}]
Returned(value) == [threw |-> FALSE, value |-> value]

InitContentManager ==
    /\ index = NoIndex
    /\ conceptFiles \in SUBSET ConceptIds
    /\ initializing = [initialize |-> 0, refresh |-> 0]
    /\ initializeCompleted = FALSE
    /\ op = "idle"
    /\ arg = NullId
    /\ result = 0
    /\ ResolverIdle
    /\ WizardIdle
    /\ AsyncIdle
    /\ RulesIdle
    /\ GeneratorIdle
    /\ LoaderIdle
    /\ FilesIdle
    /\ WalkIdle
    /\ AppIdle

\* initialize() up to await Promise.all([...])
CallInitialize ==
    /\ initializing.initialize + initializing.refresh < MaxInitializing
    /\ initializing' = [initializing EXCEPT !.initialize = @ + 1]
    /\ op' = "initialize"
    /\ UNCHANGED <<index, conceptFiles, initializeCompleted, arg, result>>
    /\ UNCHANGED <<qs, answers, wizardVars, ruleVars, asyncVars, genVars,
                   loaderVars, fileVars, walkVars, appVars>>

\* refresh() up to the await inside the initialize() it calls
refresh ==
    /\ initializing.initialize + initializing.refresh < MaxInitializing
    /\ index' = NoIndex
    /\ initializing' = [initializing EXCEPT !.refresh = @ + 1]
    /\ op' = "refresh"
    /\ UNCHANGED <<conceptFiles, initializeCompleted, arg, result>>
    /\ UNCHANGED <<qs, answers, wizardVars, ruleVars, asyncVars, genVars,
                   loaderVars, fileVars, walkVars, appVars>>

\* the rest of initialize() once the parsers have settled: they resolve and
\* the index is built from what they read, or one rejects and initialize()
\* (and the refresh() awaiting it) throws
InitializeSettles ==
    \E by \in {"initialize", "refresh"}, parsed \in BOOLEAN :
        /\ initializing[by] > 0
        /\ initializing' = [initializing EXCEPT ![by] = @ - 1]
        /\ IF parsed
           THEN /\ index' = buildContentIndex(conceptFiles)
                /\ initializeCompleted' = TRUE
           ELSE UNCHANGED <<index, initializeCompleted>>
        /\ op' = IF parsed THEN by \o " completed" ELSE by \o " threw"
        /\ UNCHANGED <<conceptFiles, arg, result>>
        /\ UNCHANGED <<qs, answers, wizardVars, ruleVars, asyncVars, genVars,
                       loaderVars, fileVars, walkVars, appVars>>

\* ensureInitialized() returns
ensureInitialized == ~index.null

getConcept ==
    \E id \in ConceptIds :
        /\ op' = "getConcept"
        /\ arg' = id
        /\ result' = IF ~ensureInitialized THEN Threw
                      ELSE Returned(IF id \in index.concepts THEN {id} ELSE {})
        /\ UNCHANGED <<index, conceptFiles, initializing, initializeCompleted>>
        /\ UNCHANGED <<qs, answers, wizardVars, ruleVars, asyncVars, genVars,
                       loaderVars, fileVars, walkVars, appVars>>

getAllConcepts ==
    /\ op' = "getAllConcepts"
    /\ arg' = NullId
    /\ result' = IF ~ensureInitialized THEN Threw ELSE Returned(index.concepts)
    /\ UNCHANGED <<index, conceptFiles, initializing, initializeCompleted>>
    /\ UNCHANGED <<qs, answers, wizardVars, ruleVars, asyncVars, genVars,
                   loaderVars, fileVars, walkVars, appVars>>

\* a concept file is added to or removed from the content directory
ContentChanges ==
    \E id \in ConceptIds :
        /\ conceptFiles' = IF id \in conceptFiles THEN conceptFiles \ {id}
                            ELSE conceptFiles \cup {id}
        /\ op' = "content changed"
        /\ UNCHANGED <<index, initializing, initializeCompleted, arg, result>>
        /\ UNCHANGED <<qs, answers, wizardVars, ruleVars, asyncVars, genVars,
                       loaderVars, fileVars, walkVars, appVars>>

NextContentManager ==
    \/ CallInitialize
    \/ refresh
    \/ InitializeSettles
    \/ getConcept
    \/ getAllConcepts
    \/ ContentChanges

SpecContentManager == InitContentManager /\ [][NextContentManager]_vars

\* C26: once an initialize() call has completed successfully, no query
\* throws 'ContentManager not initialized', also while a refresh() is in
\* progress and after a refresh() whose reload failed.
C26_NoQueryThrowsAfterInitialize ==
    (initializeCompleted /\ op \in {"getConcept", "getAllConcepts"}) => ~result.threw

----------------------------------------------------------------------------
(* cli/components/CLIApp.tsx with cli/hooks/useGeneration.ts and the        *)
(* screens it mounts.  Every handler runs to its end (or to its next await) *)
(* in one step and the app is rendered again before the next one runs.      *)

\* generateInstructions calls in one behaviour
MaxStarted == 3

Modes == {"interactive", "generate", "preview", "list"}

\* the commands of the CLI: only generate and preview take --config
Props ==
    { [mode |-> m, config |-> c] : m \in Modes, c \in BOOLEAN } \
    { [mode |-> m, config |-> TRUE] : m \in {"interactive", "list"} }

\* useState initialiser of appState
initialAppState(p) ==
    CASE p.mode = "list" -> "list"
      [] p.mode = "preview" -> "preview"
      [] p.mode = "generate" -> IF p.config THEN "generating" ELSE "questions"
      [] OTHER -> "questions"

\* useGeneration: the initial state of the hook
initialGeneration ==
    [isGenerating |-> FALSE, results |-> "null", error |-> "null", progress |-> 0,
     generatedFiles |-> "null"]

\* if (error) return <the error screen>
errorScreen(hook) == hook.error # "null"

\* rendering the app throws: ConceptPreview reads config.philosophy.tdd and
\* GenerationProgress reads config.output.projectName, and config is {}
renderThrows(state, cfg, hook) ==
    /\ ~errorScreen(hook)
    /\ state \in {"preview", "generating"}
    /\ cfg = "empty"

\* the mounted app.  With flags.config the effect calls loadConfigFromFile,
\* which logs the path and sets no state; the first render comes before it
InitApp ==
    /\ props \in Props
    /\ appState = initialAppState(props)
    /\ appConfig = "empty"
    /\ generation = initialGeneration
    /\ calls = <<>>
    /\ unmounted = renderThrows(initialAppState(props), "empty", initialGeneration)
    /\ op = "idle"
    /\ arg = NullId
    /\ result = 0
    /\ ResolverIdle
    /\ WizardIdle
    /\ AsyncIdle
    /\ RulesIdle
    /\ GeneratorIdle
    /\ LoaderIdle
    /\ FilesIdle
    /\ WalkIdle
    /\ ContentIdle

\* where a generateInstructions call is: at one of its awaits, or settled
Awaits == <<"sleep(200)", "sleep(300)", "sleep(400)", "sleep(500)",
            "templateEngine.generateInstructions", "sleep(300) before the files",
            "FileGenerator.generateToDirectory">>

\* a call: the await it is at while it runs, and how it ended
Running(k) == [await |-> k, outcome |-> "running"]
Ended(outcome) == [await |-> 0, outcome |-> outcome]

\* setProgress before the await at position k
progressAt(k) == <<10, 25, 50, 75, 75, 90, 90>>[k]

inProgress == { n \in 1..Len(calls) : calls[n].outcome = "running" }

\* mutant: the results and the error of the call before are kept
generateInstructionsStarts_KeepsResults(hook) ==
    [hook EXCEPT !.isGenerating = TRUE, !.progress = progressAt(1)]

\* generateInstructions up to its first await
generateInstructionsStarts(hook) ==
    [isGenerating |-> TRUE, error |-> "null", progress |-> progressAt(1),
     results |-> "null", generatedFiles |-> "null"]

\* a call of generateInstructions by a handler of the app
callGenerateInstructions ==
    /\ Len(calls) < MaxStarted
    /\ generation' = generateInstructionsStarts(generation)
    /\ calls' = Append(calls, Running(1))

\* mutant: the results screen is there as soon as appState is 'results'
resultsDisplayed_WithoutResults ==
    /\ ~unmounted
    /\ ~errorScreen(generation)
    /\ appState = "results"

\* appState === 'results' && results && <ResultsDisplay ...>
resultsDisplayed ==
    /\ ~unmounted
    /\ ~errorScreen(generation)
    /\ appState = "results"
    /\ generation.results # "null"

\* the wizard calls onComplete
handleConfigComplete ==
    /\ ~unmounted
    /\ ~errorScreen(generation)
    /\ appState = "questions"
    /\ appConfig' = "final"
    /\ IF props.mode = "preview"
       THEN /\ appState' = "preview"
            /\ UNCHANGED <<generation, calls>>
       ELSE /\ appState' = "generating"
            /\ callGenerateInstructions
    /\ op' = "handleConfigComplete"
    /\ UNCHANGED <<props, unmounted>>
    /\ UNCHANGED <<qs, answers, arg, result, wizardVars, ruleVars, asyncVars, genVars,
                   loaderVars, fileVars, walkVars, contentVars>>

\* GenerationProgress calls onComplete: its timers have run out
handleGenerationComplete ==
    /\ ~unmounted
    /\ appState = "generating"
    /\ appState' = "results"
    /\ op' = "handleGenerationComplete"
    /\ UNCHANGED <<props, appConfig, generation, calls, unmounted>>
    /\ UNCHANGED <<qs, answers, arg, result, wizardVars, ruleVars, asyncVars, genVars,
                   loaderVars, fileVars, walkVars, contentVars>>

\* ResultsDisplay calls onRestart
handleRestart ==
    /\ resultsDisplayed
    /\ appConfig' = "empty"
    /\ appState' = "questions"
    /\ op' = "handleRestart"
    /\ UNCHANGED <<props, generation, calls, unmounted>>
    /\ UNCHANGED <<qs, answers, arg, result, wizardVars, ruleVars, asyncVars, genVars,
                   loaderVars, fileVars, walkVars, contentVars>>

\* a generateInstructions call goes on after the await it is at: to the
\* next await, to its end, or, when the template engine or the file
\* generator rejects, to the catch block; then the finally block
generateInstructionsResumes ==
    \E n \in inProgress, rejects \in BOOLEAN :
        LET k == calls[n].await IN
        /\ rejects => Awaits[k] \in {"templateEngine.generateInstructions",
                                      "FileGenerator.generateToDirectory"}
        /\ IF rejects
           THEN /\ calls' = [calls EXCEPT ![n] = Ended("caught")]
                /\ generation' = [generation EXCEPT !.error = "message",
                                                     !.isGenerating = FALSE]
           ELSE IF k < Len(Awaits)
           THEN /\ calls' = [calls EXCEPT ![n] = Running(k + 1)]
                /\ generation' = [generation EXCEPT !.progress = progressAt(k + 1)]
           ELSE /\ calls' = [calls EXCEPT ![n] = Ended("returned")]
                /\ generation' = [generation EXCEPT !.progress = 100,
                                                     !.results = "output",
                                                     !.generatedFiles = "files",
                                                     !.isGenerating = FALSE]
        /\ op' = "generateInstructions"
        /\ UNCHANGED <<props, appState, appConfig, unmounted>>
        /\ UNCHANGED <<qs, answers, arg, result, wizardVars, ruleVars, asyncVars, genVars,
                       loaderVars, fileVars, walkVars, contentVars>>

NextApp ==
    \/ handleConfigComplete
    \/ handleGenerationComplete
    \/ handleRestart
    \/ generateInstructionsResumes

SpecApp == InitApp /\ [][NextApp]_vars

\* timers run out and suspended calls are resumed; what the user does has
\* no fairness
SpecAppForward ==
    /\ SpecApp
    /\ WF_vars(generateInstructionsResumes)
    /\ WF_vars(handleGenerationComplete)

\* C22: started in generate mode with --config, the app eventually starts
\* a generation and eventually shows the results screen or the error screen.
C22_ConfigGenerationStartsAndEnds ==
    (props.mode = "generate" /\ props.config)
    => /\ <>(Len(calls) > 0)
       /\ <>(resultsDisplayed \/ (~unmounted /\ errorScreen(generation)))

\* C25: never are two generateInstructions calls in progress at one time.
C25_AtMostOneRunInProgress ==
    Cardinality(inProgress) <= 1

\* a second call is in progress, after a restart from the results of the
\* first
C25_Witness ==
    /\ Len(calls) >= 2
    /\ calls[1].outcome = "returned"
    /\ calls[2].outcome = "running"
    /\ appState = "generating"

\* C28: when the last generateInstructions call has settled, isGenerating is
\* false, exactly one of results and error is non-null (results iff the call
\* returned, error iff it caught a failure of the template engine or of the
\* file generator) and generatedFiles is non-null iff results is; while a
\* call is in progress results and error are null.
C28_HookStateAfterSettling ==
    /\ (inProgress = {} /\ Len(calls) > 0) =>
         /\ ~generation.isGenerating
         /\ (generation.results # "null") # (generation.error # "null")
         /\ (generation.results # "null") <=> (calls[Len(calls)].outcome = "returned")
         /\ (generation.generatedFiles # "null") <=> (generation.results # "null")
    /\ inProgress # {} =>
         /\ generation.results = "null"
         /\ generation.error = "null"

\* the second call failed after the first one had given results
C28_Witness ==
    /\ Len(calls) >= 2
    /\ inProgress = {}
    /\ calls[1].outcome = "returned"
    /\ calls[2].outcome = "caught"
    /\ generation.error # "null"

====
